---- MODULE Spec2Model ----
(***************************************************************************)
(* A model of the AI Copilot VS Code extension: the ContextService         *)
(* (contextService.ts: edit history, viewed snippets, per-file analysis    *)
(* cache with expiry timers) and the AutoCompleteProvider                  *)
(* (autoCompleteProvider.ts: request admission, context building, the      *)
(* backend call and its outcomes).                                         *)
(*                                                                         *)
(* Time is Date.now() in milliseconds.  For the context service and the   *)
(* admission of requests a document's content is the number of change     *)
(* events applied to it, so two contents are equal exactly when no change *)
(* event lies between them.  For the assembly of the prompt a text is a   *)
(* sequence of atoms with the lengths of the program's strings.           *)
(***************************************************************************)
EXTENDS Integers, Sequences, FiniteSets, TLC

VARIABLES
    now,               \* Date.now()
    docs,              \* the host's documents: file -> current content
    editHistory,       \* ContextService.editHistory
    viewedSnippets,    \* ContextService.viewedSnippets
    fileContextCache,  \* ContextService.fileContextCache: file -> entry or NoEntry
    timers,            \* pending setTimeout callbacks of getFileContext
    editorCalls,       \* getFileContext calls of onActiveEditorChange suspended at the await
    lastRequestTime,   \* AutoCompleteProvider.lastRequestTime
    isManualTrigger,   \* AutoCompleteProvider.isManualTrigger
    completionsEnabled,\* configuration aiCopilot.completionsEnabled
    requests,          \* the completion requests in flight, each at one of its awaits
    lastDone,          \* history variable: the request that returned last
    lastPassedAt,      \* history variable: arrival of the last request past the debounce gate
    nRequests,         \* number of completion requests so far
    recorded,          \* history variable: every edit ever pushed, in order
    lastHit,           \* history variable: the last cache entry getFileContext returned
    nTicks,            \* number of clock advances so far
    nEditEvents,       \* number of document-change events so far
    nCtxCalls,         \* number of getFileContext calls so far
    recordedSnippets,  \* history variable: every snippet ever pushed, in order
    nSelections,       \* number of selection-change events so far
    ctxReturns,        \* history variable: file -> the last getFileContext call that returned
    lastPair,          \* history variable: the last two getFileContext returns of one file
    invalidated,       \* history variable: file -> its entry was removed by an edit or a close
                       \* and getFileContext was not called for it since
    lastFresh,         \* history variable: the first getFileContext call after an invalidation
    removals,          \* history variable: file -> what removed its entry and what found
                       \* it absent afterwards, since the last getFileContext call for it
    lastConverged,     \* history variable: the first getFileContext call after an expiry
                       \* and an invalidation of one entry
    expiries,          \* history variable: file -> number of entries expiry timers removed
    cleanInput,        \* the reply and the prefix cleanCompletion is applied to
    cleaned,           \* what cleanCompletion returned
    cleanPc,           \* "none", "reply", "cleaned"
    promptInput,       \* the document, edits, snippets and budget a prompt is assembled for
    promptContext,     \* the context buildContext returned (in a sequence; empty: none yet)
    promptElements,    \* the elements buildStructuredPrompt returned
    finalPrompt,       \* the text renderPromptElements returned
    promptPc,          \* how far the assembly of the prompt has come
    apiKey,            \* configuration aiCopilot.apiKey (in a sequence; empty: not set)
    nKeyChanges,       \* number of changes of the setting so far
    messages,          \* ChatProvider._messages
    pendingAttachments,\* ChatProvider._pendingAttachments
    chatSends,         \* the _handleSendMessage calls suspended at the await of _sendToAI
    nSends,            \* number of user messages pushed so far
    nAttachments,      \* number of attachments added so far
    nClears,           \* number of clearChat messages handled so far
    clearedSends,      \* history variable: the value of nSends at the last clear
    sentLog,           \* history variable: every user message ever pushed, in order
    lastSend,          \* history variable: the last sendMessage handled
    lastRead,          \* history variable: the last read operation and what it returned
    nReads             \* number of read operations so far

vars == <<now, docs, editHistory, viewedSnippets, fileContextCache, timers,
          editorCalls, lastRequestTime, isManualTrigger, completionsEnabled,
          requests, lastDone, lastPassedAt, nRequests, recorded, lastHit,
          nTicks, nEditEvents, nCtxCalls, recordedSnippets, nSelections,
          ctxReturns, lastPair, expiries, invalidated, lastFresh,
          removals, lastConverged, cleanInput, cleaned, cleanPc, promptInput, promptContext,
          promptElements, finalPrompt, promptPc, apiKey, nKeyChanges, messages,
          pendingAttachments, chatSends, nSends, nAttachments, nClears,
          clearedSends, sentLog, lastSend, lastRead, nReads>>

clockVars == <<now, nTicks>>
editVars == <<docs, editHistory, recorded, nEditEvents>>
returnVars == <<ctxReturns, lastPair>>
freshVars == <<invalidated, lastFresh, removals, lastConverged>>
snippetVars == <<viewedSnippets, recordedSnippets, nSelections>>
cacheVars == <<fileContextCache, timers>>
callVars == <<editorCalls, lastHit, nCtxCalls>>
cleanVars == <<cleanInput, cleaned, cleanPc>>
promptVars == <<promptInput, promptContext, promptElements, finalPrompt, promptPc,
                cleanVars>>
readVars == <<lastRead, nReads>>
configVars == <<apiKey, nKeyChanges>>
chatVars == <<messages, pendingAttachments, chatSends, nSends, nAttachments, nClears,
              clearedSends, sentLog, lastSend>>
providerVars == <<lastRequestTime, isManualTrigger, completionsEnabled, requests,
                  lastDone, lastPassedAt, nRequests>>

----------------------------------------------------------------------------
(* Program constants *)

maxHistoryItems == 20
maxSnippetItems == 10
cacheTimeout == 5 * 60 * 1000
debounceMs == 300
\* isTypingRapidly: getEditHistoryForFile(fileName, 0.017), 0.017 * 60 * 1000 ms
RapidWindowMs == (17 * 60 * 1000) \div 1000
\* buildContext: getEditHistoryForFile(fileName, 5), 5 * 60 * 1000 ms
EditWindowMs == 5 * 60 * 1000
\* buildContext: getSnippetsForLanguage(languageId, 10), 10 * 60 * 1000 ms
SnippetWindowMs == 10 * 60 * 1000
\* axios.post(..., { timeout: 500000 })
RequestTimeoutMs == 500000
\* Date.now() when the extension is activated: long after the epoch, so that
\* the initial lastRequestTime of 0 debounces nothing
StartTime == 10 * debounceMs

(* Bounds of the model, one set per specification *)

HistMaxTicks == 2
HistMaxEditEvents == 3
CacheMaxTicks == 1
CacheMaxEditEvents == 1
CacheMaxCalls == 2
ExpMaxTicks == 2
ExpMaxEditEvents == 1
ExpMaxCalls == 2
ProvMaxTicks == 1
ProvMaxRequests == 2
TypMaxTicks == 1
TypMaxEditEvents == 2
TypMaxRequests == 1
CallMaxTicks == 1
CallMaxEditEvents == 1
CallMaxCalls == 3
SnipMaxSelections == 12
SnipMaxEditEvents == 1
RenderMaxElements == 3
CleanMaxLines == 2
QryMaxTicks == 2
QryMaxEditEvents == 2
QryMaxSelections == 2
HdrMaxKeyChanges == 2
HdrMaxRequests == 2
ChatMaxAttachments == 1
ChatMaxSends == 2
ChatMaxClears == 1
FrameMaxEditEvents == 2
FrameMaxSelections == 1
FrameMaxCalls == 2
ReadMaxEditEvents == 2
ReadMaxSelections == 1
ReadMaxCalls == 1
ReadMaxTicks == 1
ReadMaxReads == 1

Files == {"a.ts", "b.py"}
\* the number of contentChanges one change event may carry
ChangeCounts == {1, 5, maxHistoryItems}
\* the amounts by which the clock advances between two handlers
TickSteps == {debounceMs \div 2, cacheTimeout}

NoEntry == [fullContent |-> -1, language |-> "none", storedAt |-> -1]

\* document.languageId
Language(f) == IF f = "a.ts" THEN "typescript" ELSE "python"

----------------------------------------------------------------------------
(* ContextService *)

\* Array.prototype.slice(-n)
SliceLast(s, n) == IF Len(s) > n THEN SubSeq(s, Len(s) - n + 1, Len(s)) ELSE s

\* (mutant of getRecentEditHistory: an edit exactly one window old is recent)
getRecentEditHistoryInclusive(windowMs) ==
    LET timeThreshold == now - windowMs
        Recent(edit) == edit.timestamp >= timeThreshold
    IN  SelectSeq(editHistory, Recent)

\* getRecentEditHistory(minutes), the window given in milliseconds
getRecentEditHistory(windowMs) ==
    LET timeThreshold == now - windowMs
        Recent(edit) == edit.timestamp > timeThreshold
    IN  SelectSeq(editHistory, Recent)

\* getEditHistoryForFile(fileName, minutes)
getEditHistoryForFile(fileName, windowMs) ==
    LET OfFile(edit) == edit.fileName = fileName
    IN  SelectSeq(getRecentEditHistory(windowMs), OfFile)

\* the edits one change event pushes: one per content change, all stamped now
NewEdits(f, n) ==
    [i \in 1..n |-> [timestamp |-> now, fileName |-> f, range |-> i,
                     newText |-> docs[f] + 1]]

\* (mutant of CappedHistory: the cap keeps the oldest entries)
CappedHistoryKeepsOldest(h) ==
    IF Len(h) > maxHistoryItems THEN SubSeq(h, 1, maxHistoryItems) ELSE h

\* the history after the pushes and the cap
CappedHistory(h) ==
    IF Len(h) > maxHistoryItems THEN SliceLast(h, maxHistoryItems) ELSE h

NoFresh == [fileName |-> "none", content |-> -1, document |-> -1]

\* history: fileContextCache.delete(f) is run by an expiry timer ("timer"),
\* by onDocumentChange ("edit") or by onDocumentClose ("close"); the first
\* two deletions from the one that removed an entry are kept
Removed(f, kind) ==
    removals' = [removals EXCEPT
                   ![f] = IF fileContextCache[f] # NoEntry THEN <<kind>>
                          ELSE IF Len(@) = 1 THEN Append(@, kind)
                          ELSE @]

\* history: onDocumentChange or onDocumentClose deletes the entry of f
Invalidate(f, kind) ==
    /\ invalidated' = [invalidated EXCEPT ![f] = @ \/ fileContextCache[f] # NoEntry]
    /\ Removed(f, kind)
    /\ UNCHANGED <<lastFresh, lastConverged>>

\* (mutant of onDocumentChange: the whole cache is cleared)
onDocumentChangeClearsCache(f, n) ==
    /\ docs' = [docs EXCEPT ![f] = @ + 1]
    /\ editHistory' = CappedHistory(editHistory \o NewEdits(f, n))
    /\ fileContextCache' = [g \in Files |-> NoEntry]
    /\ recorded' = recorded \o NewEdits(f, n)
    /\ nEditEvents' = nEditEvents + 1
    /\ Invalidate(f, "edit")
    /\ UNCHANGED <<clockVars, snippetVars, returnVars, expiries, promptVars, chatVars, configVars, readVars, timers, callVars, providerVars>>

\* onDocumentChange(event) with n >= 1 content changes of file f
onDocumentChange(f, n) ==
    /\ docs' = [docs EXCEPT ![f] = @ + 1]
    /\ editHistory' = CappedHistory(editHistory \o NewEdits(f, n))
    /\ fileContextCache' = [fileContextCache EXCEPT ![f] = NoEntry]
    /\ recorded' = recorded \o NewEdits(f, n)
    /\ nEditEvents' = nEditEvents + 1
    /\ Invalidate(f, "edit")
    /\ UNCHANGED <<clockVars, snippetVars, returnVars, expiries, promptVars, chatVars, configVars, readVars, timers, callVars, providerVars>>

\* (mutant of getRecentViewedSnippets: snippets older than the window are kept)
getRecentViewedSnippetsOlder(windowMs) ==
    LET timeThreshold == now - windowMs
        Recent(snippet) == snippet.timestamp < timeThreshold
    IN  SelectSeq(viewedSnippets, Recent)

\* getRecentViewedSnippets(minutes), the window given in milliseconds
getRecentViewedSnippets(windowMs) ==
    LET timeThreshold == now - windowMs
        Recent(snippet) == snippet.timestamp > timeThreshold
    IN  SelectSeq(viewedSnippets, Recent)

\* getSnippetsForLanguage(language, minutes)
getSnippetsForLanguage(language, windowMs) ==
    LET OfLanguage(snippet) == snippet.language = language
    IN  SelectSeq(getRecentViewedSnippets(windowMs), OfLanguage)

\* the selections of an editor: an empty one (a cursor) and a non-empty one
Selections == {[start |-> 0, end |-> 0], [start |-> 0, end |-> 1]}

\* the snippet onSelectionChange records for a selection of file f
NewSnippet(f, selection) ==
    [timestamp |-> now, fileName |-> f, content |-> docs[f], range |-> selection,
     language |-> Language(f)]

\* (mutant of CappedSnippets: the store is cut to the capacity of the edit history)
CappedSnippetsAsHistory(v) ==
    IF Len(v) > maxHistoryItems THEN SliceLast(v, maxHistoryItems) ELSE v

\* the snippets after the push and the cap
CappedSnippets(v) ==
    IF Len(v) > maxSnippetItems THEN SliceLast(v, maxSnippetItems) ELSE v

\* onSelectionChange(event) for a selection of file f
onSelectionChange(f, selection) ==
    /\ nSelections' = nSelections + 1
    /\ IF selection.start # selection.end
       THEN /\ viewedSnippets' = CappedSnippets(viewedSnippets \o <<NewSnippet(f, selection)>>)
            /\ recordedSnippets' = recordedSnippets \o <<NewSnippet(f, selection)>>
       ELSE UNCHANGED <<viewedSnippets, recordedSnippets>>
    /\ UNCHANGED <<clockVars, editVars, cacheVars, callVars, returnVars, expiries,
                   freshVars, providerVars, promptVars, chatVars, configVars, readVars>>

\* getStats()
getStats ==
    [editHistoryCount |-> Len(editHistory),
     viewedSnippetsCount |-> Len(viewedSnippets),
     cachedFilesCount |-> Cardinality({f \in Files : fileContextCache[f] # NoEntry})]

NoRead == [op |-> "none", result |-> <<>>]

\* history: a read operation returned
Returned(op, result) ==
    /\ lastRead' = [op |-> op, result |-> result]
    /\ nReads' = nReads + 1

\* (mutant of callGetRecentEditHistory: the history is cut to what is returned)
callGetRecentEditHistoryPrunes(windowMs) ==
    /\ Returned("getRecentEditHistory", getRecentEditHistory(windowMs))
    /\ editHistory' = getRecentEditHistory(windowMs)
    /\ UNCHANGED <<docs, recorded, nEditEvents>>
    /\ UNCHANGED <<clockVars, snippetVars, freshVars, returnVars, expiries, cacheVars,
                   callVars, providerVars, promptVars, chatVars, configVars>>

\* a call of getRecentEditHistory(minutes)
callGetRecentEditHistory(windowMs) ==
    /\ Returned("getRecentEditHistory", getRecentEditHistory(windowMs))
    /\ UNCHANGED <<clockVars, editVars, snippetVars, freshVars, returnVars, expiries, cacheVars,
                   callVars, providerVars, promptVars, chatVars, configVars>>

\* a call of getEditHistoryForFile(fileName, minutes)
callGetEditHistoryForFile(f, windowMs) ==
    /\ Returned("getEditHistoryForFile", getEditHistoryForFile(f, windowMs))
    /\ UNCHANGED <<clockVars, editVars, snippetVars, freshVars, returnVars, expiries, cacheVars,
                   callVars, providerVars, promptVars, chatVars, configVars>>

\* a call of getRecentViewedSnippets(minutes)
callGetRecentViewedSnippets(windowMs) ==
    /\ Returned("getRecentViewedSnippets", getRecentViewedSnippets(windowMs))
    /\ UNCHANGED <<clockVars, editVars, snippetVars, freshVars, returnVars, expiries, cacheVars,
                   callVars, providerVars, promptVars, chatVars, configVars>>

\* a call of getSnippetsForLanguage(language, minutes)
callGetSnippetsForLanguage(language, windowMs) ==
    /\ Returned("getSnippetsForLanguage", getSnippetsForLanguage(language, windowMs))
    /\ UNCHANGED <<clockVars, editVars, snippetVars, freshVars, returnVars, expiries, cacheVars,
                   callVars, providerVars, promptVars, chatVars, configVars>>

\* a call of getStats()
callGetStats ==
    /\ Returned("getStats", <<getStats>>)
    /\ UNCHANGED <<clockVars, editVars, snippetVars, freshVars, returnVars, expiries, cacheVars,
                   callVars, providerVars, promptVars, chatVars, configVars>>

\* analyzeFile(document): the analysis is a function of content and language
analyzeFile(f) == [fullContent |-> docs[f], language |-> Language(f)]

\* the entry fileContextCache.set stores for a context (storedAt: history field)
Entry(context) ==
    [fullContent |-> context.fullContent, language |-> context.language,
     storedAt |-> now]

\* setTimeout(() => fileContextCache.delete(fileName), cacheTimeout)
NewTimer(f) == [fileName |-> f, due |-> now + cacheTimeout]

\* (mutant of StoreContext: no expiry timer is scheduled)
StoreContextNoTimer(f, context) ==
    /\ fileContextCache' = [fileContextCache EXCEPT ![f] = Entry(context)]
    /\ timers' = timers

\* getFileContext after its await: store the context and schedule the expiry
StoreContext(f, context) ==
    /\ fileContextCache' = [fileContextCache EXCEPT ![f] = Entry(context)]
    /\ timers' = timers \cup {NewTimer(f)}

\* what a cache hit of getFileContext returns (fullContent), with the content
\* of the document it was asked for and the time since the entry was stored
Hit(f) == [fileName |-> f, fullContent |-> fileContextCache[f].fullContent,
           document |-> docs[f], age |-> now - fileContextCache[f].storedAt]

NoHit == [fileName |-> "none", fullContent |-> -1, document |-> -1, age |-> -1]

\* the deletions are one by an expiry timer and one by an edit or a close
ExpiredAndInvalidated(deletions) ==
    /\ Len(deletions) = 2
    /\ \E i \in 1..2 : deletions[i] = "timer" /\ deletions[3 - i] \in {"edit", "close"}

\* history: getFileContext is called for f; after an invalidation, the content
\* of the context this call returns and the content of the document
RecordCall(f) ==
    LET call == [fileName |-> f,
                 content |-> IF fileContextCache[f] # NoEntry
                             THEN fileContextCache[f].fullContent
                             ELSE analyzeFile(f).fullContent,
                 document |-> docs[f]]
    IN  /\ invalidated' = [invalidated EXCEPT ![f] = FALSE]
        /\ lastFresh' = IF invalidated[f] THEN call ELSE lastFresh
        /\ removals' = [removals EXCEPT ![f] = <<>>]
        /\ lastConverged' = IF ExpiredAndInvalidated(removals[f]) THEN call
                            ELSE lastConverged

NoReturn == [content |-> -1, document |-> -1, expiries |-> -1]
NoPair == [fileName |-> "none", first |-> -1, second |-> -1, between |-> FALSE]

\* history: a getFileContext call for f returns a context of the given
\* content; the call was made when the document had content document and
\* expired entries of f had been removed expired times.  between: the file was
\* edited, or an entry of it expired, between the making of the previous call
\* to return and the making of this one
RecordReturn(f, content, document, expired) ==
    /\ lastPair' = IF ctxReturns[f] = NoReturn
                   THEN lastPair
                   ELSE [fileName |-> f, first |-> ctxReturns[f].content,
                         second |-> content,
                         between |-> (\/ ctxReturns[f].document # document
                                      \/ ctxReturns[f].expiries # expired)]
    /\ ctxReturns' = [ctxReturns EXCEPT
                        ![f] = [content |-> content, document |-> document,
                                expiries |-> expired]]

\* onActiveEditorChange(editor): getFileContext(editor.document) up to its await
onActiveEditorChange(f) ==
    /\ nCtxCalls' = nCtxCalls + 1
    /\ RecordCall(f)
    /\ IF fileContextCache[f] # NoEntry
       THEN /\ lastHit' = Hit(f)
            /\ RecordReturn(f, fileContextCache[f].fullContent, docs[f], expiries[f])
            /\ UNCHANGED editorCalls
       ELSE /\ editorCalls' = editorCalls \cup {[fileName |-> f, context |-> analyzeFile(f),
                                                 expiries |-> expiries[f]]}
            /\ UNCHANGED <<lastHit, returnVars>>
    /\ UNCHANGED <<clockVars, editVars, snippetVars, expiries, promptVars, chatVars, configVars, readVars, cacheVars, providerVars>>

\* the continuation of a getFileContext call made by onActiveEditorChange
editorCallResume(c) ==
    /\ c \in editorCalls
    /\ StoreContext(c.fileName, c.context)
    /\ RecordReturn(c.fileName, c.context.fullContent, c.context.fullContent, c.expiries)
    /\ editorCalls' = editorCalls \ {c}
    /\ UNCHANGED <<clockVars, editVars, snippetVars, freshVars, expiries, promptVars, chatVars, configVars, readVars, lastHit, nCtxCalls, providerVars>>

\* the expiry callback of a timer that is due
timerFire(t) ==
    /\ t \in timers
    /\ t.due <= now
    /\ fileContextCache' = [fileContextCache EXCEPT ![t.fileName] = NoEntry]
    /\ timers' = timers \ {t}
    /\ expiries' = IF fileContextCache[t.fileName] # NoEntry
                   THEN [expiries EXCEPT ![t.fileName] = @ + 1]
                   ELSE expiries
    /\ Removed(t.fileName, "timer")
    /\ UNCHANGED <<invalidated, lastFresh, lastConverged>>
    /\ UNCHANGED <<clockVars, editVars, snippetVars, returnVars, promptVars, chatVars, configVars, readVars, callVars, providerVars>>

\* onDocumentClose(document)
onDocumentClose(f) ==
    /\ fileContextCache' = [fileContextCache EXCEPT ![f] = NoEntry]
    /\ Invalidate(f, "close")
    /\ UNCHANGED <<clockVars, editVars, snippetVars, returnVars, expiries, promptVars, chatVars, configVars, readVars, timers, callVars, providerVars>>

\* clearCache(): the cache, the edit history and the snippet store are emptied
\* (the pending expiry timers are not cancelled)
clearCache ==
    /\ fileContextCache' = [f \in Files |-> NoEntry]
    /\ editHistory' = <<>>
    /\ viewedSnippets' = <<>>
    /\ invalidated' = [f \in Files |-> invalidated[f] \/ fileContextCache[f] # NoEntry]
    /\ removals' = [f \in Files |->
                      IF fileContextCache[f] # NoEntry THEN <<"clear">>
                      ELSE IF Len(removals[f]) = 1 THEN Append(removals[f], "clear")
                      ELSE removals[f]]
    /\ UNCHANGED <<lastFresh, lastConverged>>
    /\ UNCHANGED <<clockVars, docs, recorded, nEditEvents, recordedSnippets, nSelections,
                   returnVars, expiries, promptVars, chatVars, configVars, readVars,
                   timers, callVars, providerVars>>

\* the clock advances between two handlers
Tick(d) ==
    /\ now' = now + d
    /\ nTicks' = nTicks + 1
    /\ UNCHANGED <<editVars, snippetVars, freshVars, returnVars, expiries, promptVars, chatVars, configVars, readVars, cacheVars, callVars, providerVars>>

----------------------------------------------------------------------------
(* AutoCompleteProvider *)

\* isTypingRapidly(document)
isTypingRapidly(f) == Len(getEditHistoryForFile(f, RapidWindowMs)) > 2

\* (mutant of Debounced: a debounce window of a third of debounceMs)
DebouncedShortWindow == now - lastRequestTime < debounceMs \div 3

\* the debounce check of provideInlineCompletionItems
Debounced == now - lastRequestTime < debounceMs

\* (mutant of RapidGuard: the guard applies to every trigger kind)
RapidGuardAnyKind(kind, f) == isTypingRapidly(f)

\* the rapid-typing guard of provideInlineCompletionItems
RapidGuard(kind, f) == kind = "Automatic" /\ isTypingRapidly(f)

\* history: more than 2 edits of f were recorded within the rapid-typing window
RecordedRapid(f) ==
    LET Recent(edit) == edit.fileName = f /\ edit.timestamp > now - RapidWindowMs
    IN  Len(SelectSeq(recorded, Recent)) > 2

\* history: the time since the last request that passed the debounce gate
\* arrived (-1: there was none)
SinceLastPassed == IF lastPassedAt < 0 THEN -1 ELSE now - lastPassedAt

NoRequest ==
    [path |-> "none", kind |-> "none", fileName |-> "none",
     gate |-> "none", sincePassed |-> -1, typing |-> FALSE, cancelled |-> FALSE,
     backendCalled |-> FALSE, outcome |-> "none", genResult |-> "none",
     result |-> "none", logged |-> FALSE]

\* a request that returned null at one of the gates of provideInlineCompletionItems
Suppressed(f, kind, gate) ==
    [path |-> "auto", kind |-> kind, fileName |-> f,
     gate |-> gate, sincePassed |-> SinceLastPassed, typing |-> RecordedRapid(f),
     cancelled |-> FALSE, backendCalled |-> FALSE, outcome |-> "none",
     genResult |-> "none", result |-> "null", logged |-> FALSE]

\* the values the setting aiCopilot.apiKey takes: not set, empty, a key
ConfiguredKeys == {<<>>, <<"">>, <<"sk-1">>, <<"sk-2">>}

\* config.get<string>('apiKey') || ''
ReadApiKey == IF apiKey = <<>> \/ apiKey[1] = "" THEN "" ELSE apiKey[1]

\* (mutant of Headers: the Authorization header is set whatever the key)
HeadersAlwaysAuthorized(key) ==
    {<<"Content-Type", "application/json">>, <<"Authorization", "Bearer " \o key>>}

\* the headers of a request to the backend, for the key read from the configuration
Headers(key) ==
    {<<"Content-Type", "application/json">>}
        \cup (IF key # "" THEN {<<"Authorization", "Bearer " \o key>>} ELSE {})

\* the user changes the setting aiCopilot.apiKey
setApiKey(k) ==
    /\ k # apiKey
    /\ apiKey' = k
    /\ nKeyChanges' = nKeyChanges + 1
    /\ UNCHANGED <<clockVars, editVars, snippetVars, freshVars, returnVars, expiries,
                   promptVars, chatVars, readVars, cacheVars, callVars, providerVars>>

\* a request inside generateCompletion, at the await of getFileContext
Started(path, f, kind) ==
    [id |-> nRequests + 1, path |-> path, kind |-> kind, fileName |-> f,
     sincePassed |-> IF path = "auto" THEN SinceLastPassed ELSE -1,
     typing |-> RecordedRapid(f), pc |-> "ctx",
     fromCache |-> fileContextCache[f] # NoEntry,
     context |-> IF fileContextCache[f] # NoEntry
                 THEN [fullContent |-> fileContextCache[f].fullContent,
                       language |-> fileContextCache[f].language]
                 ELSE analyzeFile(f),
     expiries |-> expiries[f], cancelled |-> FALSE, postedAt |-> -1,
     enabled |-> (path = "manual" \/ completionsEnabled),
     configured |-> apiKey, apiKey |-> ReadApiKey, headers |-> {}]

\* generateCompletion up to the await of getFileContext in buildContext
generateCompletionStart(path, f, kind) ==
    /\ requests' = requests \cup {Started(path, f, kind)}
    /\ nCtxCalls' = nCtxCalls + 1
    /\ RecordCall(f)
    /\ lastHit' = IF fileContextCache[f] # NoEntry THEN Hit(f) ELSE lastHit
    /\ IF fileContextCache[f] # NoEntry
       THEN RecordReturn(f, fileContextCache[f].fullContent, docs[f], expiries[f])
       ELSE UNCHANGED returnVars
    /\ UNCHANGED lastDone

\* provideInlineCompletionItems(document, position, context, token) up to its
\* first await, or to the return of null at one of its gates
provideInlineCompletionItems(f, kind) ==
    /\ nRequests' = nRequests + 1
    /\ IF ~isManualTrigger /\ ~completionsEnabled
       THEN /\ lastDone' = Suppressed(f, kind, "disabled")
            /\ UNCHANGED <<isManualTrigger, lastRequestTime, lastPassedAt,
                           requests, nCtxCalls, lastHit, returnVars, freshVars>>
       ELSE /\ isManualTrigger' = FALSE
            /\ IF Debounced
               THEN /\ lastDone' = Suppressed(f, kind, "debounce")
                    /\ UNCHANGED <<lastRequestTime, lastPassedAt, requests,
                                   nCtxCalls, lastHit, returnVars, freshVars>>
               ELSE /\ lastRequestTime' = now
                    /\ lastPassedAt' = now
                    /\ IF RapidGuard(kind, f)
                       THEN /\ lastDone' = Suppressed(f, kind, "rapid")
                            /\ UNCHANGED <<requests, nCtxCalls, lastHit, returnVars, freshVars>>
                       ELSE generateCompletionStart("auto", f, kind)
    /\ UNCHANGED <<clockVars, editVars, snippetVars, expiries, promptVars, chatVars, configVars, readVars, cacheVars, editorCalls,
                   completionsEnabled>>

\* triggerManualCompletion(document, position) up to its first await
triggerManualCompletion(f) ==
    /\ nRequests' = nRequests + 1
    /\ isManualTrigger' = TRUE
    /\ generateCompletionStart("manual", f, "Manual")
    /\ UNCHANGED <<clockVars, editVars, snippetVars, expiries, promptVars, chatVars, configVars, readVars, cacheVars, editorCalls,
                   lastRequestTime, lastPassedAt, completionsEnabled>>

\* generateCompletion from the continuation of getFileContext to the await of
\* axios.post: the context is stored if it was computed, the prompt is built
\* and the request is sent
generateCompletionPost(r) ==
    /\ r \in requests
    /\ r.pc = "ctx"
    /\ IF r.fromCache
       THEN UNCHANGED <<cacheVars, returnVars>>
       ELSE /\ StoreContext(r.fileName, r.context)
            /\ RecordReturn(r.fileName, r.context.fullContent, r.context.fullContent,
                            r.expiries)
    /\ requests' = (requests \ {r}) \cup {[r EXCEPT !.pc = "net", !.postedAt = now,
                                                   !.headers = Headers(r.apiKey)]}
    /\ UNCHANGED <<clockVars, editVars, snippetVars, freshVars, expiries, promptVars, chatVars, configVars, readVars, callVars, lastDone,
                   lastRequestTime, lastPassedAt, isManualTrigger,
                   completionsEnabled, nRequests>>

\* what the backend does with a request
Outcomes == {"ok", "timeout", "refused", "non2xx", "malformed"}

\* (mutant of GenResult: a timeout is rethrown like any other failure)
GenResultTimeoutThrows(outcome, cancelled) ==
    CASE outcome = "ok" -> IF cancelled THEN "null" ELSE "completion"
      [] outcome = "malformed" -> IF cancelled THEN "null" ELSE "error"
      [] OTHER -> "error"

\* (mutant of GenResult: the cancellation token is not checked)
GenResultIgnoresCancellation(outcome, cancelled) ==
    CASE outcome = "ok" -> "completion"
      [] outcome = "malformed" -> "error"
      [] outcome = "timeout" -> "null"
      [] OTHER -> "error"

\* what generateCompletion returns or throws once axios.post has settled
GenResult(outcome, cancelled) ==
    CASE outcome = "ok" -> IF cancelled THEN "null" ELSE "completion"
      [] outcome = "malformed" -> IF cancelled THEN "null" ELSE "error"
      [] outcome = "timeout" -> "null"
      [] OTHER -> "error"

\* what provideInlineCompletionItems returns once generateCompletion has settled
InlineResult(genResult, cancelled) ==
    IF genResult = "error" THEN "null"
    ELSE IF genResult = "null" \/ cancelled THEN "null" ELSE "completion"

\* (mutant of ManualResult: the manual path swallows the error as well)
ManualResultSwallows(genResult) == IF genResult = "error" THEN "null" ELSE genResult

\* what triggerManualCompletion returns or throws
ManualResult(genResult) == genResult

\* the record of a request that ran to its end
Finished(r, outcome) ==
    LET g == GenResult(outcome, r.cancelled)
    IN  [path |-> r.path, kind |-> r.kind, fileName |-> r.fileName,
         gate |-> "passed", sincePassed |-> r.sincePassed, typing |-> r.typing,
         cancelled |-> r.cancelled, backendCalled |-> TRUE, outcome |-> outcome,
         genResult |-> g,
         result |-> IF r.path = "auto" THEN InlineResult(g, r.cancelled)
                    ELSE ManualResult(g),
         logged |-> (r.path = "auto" /\ g = "error")]

\* (mutant of ManualFlagAfter: triggerManualCompletion has no finally block)
ManualFlagKept(r) == isManualTrigger

\* isManualTrigger once the call that made request r has returned or thrown:
\* the finally block of triggerManualCompletion clears it
ManualFlagAfter(r) == IF r.path = "manual" THEN FALSE ELSE isManualTrigger

\* axios.post settles and the request runs to its end
respond(r, outcome) ==
    /\ r \in requests
    /\ r.pc = "net"
    /\ outcome = "timeout" => now - r.postedAt >= RequestTimeoutMs
    /\ requests' = requests \ {r}
    /\ lastDone' = Finished(r, outcome)
    /\ isManualTrigger' = ManualFlagAfter(r)
    /\ UNCHANGED <<clockVars, editVars, snippetVars, freshVars, returnVars, expiries, promptVars, chatVars, configVars, readVars, cacheVars, callVars,
                   lastRequestTime, lastPassedAt, completionsEnabled, nRequests>>

\* the host requests cancellation of a request it made
cancel(r) ==
    /\ r \in requests
    /\ r.path = "auto"
    /\ ~r.cancelled
    /\ requests' = (requests \ {r}) \cup {[r EXCEPT !.cancelled = TRUE]}
    /\ UNCHANGED <<clockVars, editVars, snippetVars, freshVars, returnVars, expiries, promptVars, chatVars, configVars, readVars, cacheVars, callVars,
                   lastDone, lastRequestTime, lastPassedAt, isManualTrigger,
                   completionsEnabled, nRequests>>

\* the user changes the setting aiCopilot.completionsEnabled
toggleCompletions ==
    /\ completionsEnabled' = ~completionsEnabled
    /\ UNCHANGED <<clockVars, editVars, snippetVars, freshVars, returnVars, expiries, promptVars, chatVars, configVars, readVars, cacheVars, callVars,
                   lastDone, lastRequestTime, lastPassedAt, isManualTrigger,
                   requests, nRequests>>

----------------------------------------------------------------------------
(* Prompt assembly (autoCompleteProvider.ts).                              *)
(* A text is a sequence of atoms.  A newline is the atom NL; every other   *)
(* atom is a non-empty string without a newline, so that two newlines are  *)
(* adjacent in a text exactly when their atoms are adjacent.  The length   *)
(* of a text is the number of its characters.                              *)

NL == "\n"
\* a backtick and a code fence of three backticks, written with apostrophes
\* of the same length
Backtick == "'"
Fence == "'''"

Max(a, b) == IF a >= b THEN a ELSE b
Min(a, b) == IF a <= b THEN a ELSE b

\* String.prototype.length
RECURSIVE TextLength(_)
TextLength(text) ==
    IF text = <<>> THEN 0
    ELSE IF Len(text) = 1 THEN Len(text[1])
    ELSE LET half == Len(text) \div 2
         IN  TextLength(SubSeq(text, 1, half))
             + TextLength(SubSeq(text, half + 1, Len(text)))

\* estimateTokens(text): Math.ceil(text.length / 4)
estimateTokens(text) == (TextLength(text) + 3) \div 4

\* Array.prototype.join(separator)
RECURSIVE Join(_, _)
Join(parts, separator) ==
    IF parts = <<>> THEN <<>>
    ELSE IF Len(parts) = 1 THEN parts[1]
    ELSE LET half == Len(parts) \div 2
         IN  Join(SubSeq(parts, 1, half), separator) \o separator
             \o Join(SubSeq(parts, half + 1, Len(parts)), separator)

\* String.prototype.split('\n')
Split(text) ==
    LET IsNewline(i) == text[i] = NL
        newlines == SelectSeq([i \in 1..Len(text) |-> i], IsNewline)
        cuts == <<0>> \o newlines \o <<Len(text) + 1>>
    IN  [k \in 1..(Len(newlines) + 1) |-> SubSeq(text, cuts[k] + 1, cuts[k + 1] - 1)]

\* Array.prototype.slice(0, n)
SliceFirst(s, n) == SubSeq(s, 1, IF Len(s) < n THEN Len(s) ELSE n)

\* (mutant of addLineNumbers: the lines get no number)
addLineNumbersUnnumbered(content, startLine) == content

\* addLineNumbers(content, startLine)
addLineNumbers(content, startLine) ==
    LET lines == Split(content)
    IN  Join([i \in 1..Len(lines) |-> <<ToString(startLine + i), "| ">> \o lines[i]],
             <<NL>>)

\* document.getText()
DocumentText(document) == Join(document.lines, <<NL>>)

\* the languages importPatterns and functionPatterns have a pattern for; the
\* pattern of functions for css is /$/g
PatternLanguages ==
    {"javascript", "typescript", "python", "java", "csharp", "ruby", "php", "css"}

\* content.match(/$/) || []: the pattern matches the empty string at the end
\* of every content, so the result is the list of that one match
EndOfContentMatches == <<"">>

\* extractImports(content, language): the matches of the pattern of the
\* language are given with the document
extractImports(document) ==
    IF document.languageId \in PatternLanguages THEN document.imports
    ELSE EndOfContentMatches

\* extractFunctions(content, language)
extractFunctions(document) ==
    IF document.languageId \in PatternLanguages \ {"css"} THEN document.functions
    ELSE EndOfContentMatches

\* the FileContext analyzeFile computes for a document; the lists the
\* extractors find are given with the document
DocumentAnalysis(document) ==
    [fullContent |-> DocumentText(document), language |-> document.languageId,
     imports |-> extractImports(document), functions |-> extractFunctions(document)]

\* buildContext(document, position), with the edits and snippets the context
\* service returns for the file and the language
buildContext(document, edits, snippets) ==
    LET first == Max(0, document.line - 10)
        last == Min(Len(document.lines) - 1, document.line + 10)
        areaAroundCode == Join(SubSeq(document.lines, first + 1, last + 1), <<NL>>)
        fileContext == DocumentAnalysis(document)
    IN  [codeToEdit |-> document.prefixText \o <<"<|cursor|>">> \o document.suffixText,
         areaAroundCode |-> addLineNumbers(areaAroundCode, first),
         currentFileContent |-> addLineNumbers(fileContext.fullContent, 0),
         editHistory |-> edits,
         viewedSnippets |-> snippets,
         prefixText |-> document.prefixText,
         suffixText |-> document.suffixText,
         fileContext |-> fileContext,
         fileName |-> document.fileName,
         language |-> document.languageId]

\* the text of one snippet in the recently_viewed_code_snippets section
SnippetContent(snippet) ==
    <<"<|recently_viewed_code_snippet|>", NL,
      "File: ", snippet.fileName, " (", snippet.language, ")", NL>>
    \o addLineNumbers(snippet.content, 0)
    \o <<NL, "<|/recently_viewed_code_snippet|>", NL>>

\* (mutant of SnippetLoop: the share of the available tokens is not tested)
RECURSIVE SnippetLoopAnySize(_, _, _, _)
SnippetLoopAnySize(snippets, tokensUsed, snippetCount, availableTokens) ==
    IF snippets = <<>>
    THEN [sections |-> <<>>, tokensUsed |-> tokensUsed]
    ELSE LET snippetContent == SnippetContent(Head(snippets))
             snippetTokens == estimateTokens(snippetContent)
         IN  IF snippetCount + 1 >= 3
             THEN [sections |-> <<snippetContent>>,
                   tokensUsed |-> tokensUsed + snippetTokens]
             ELSE LET rest == SnippetLoopAnySize(Tail(snippets), tokensUsed + snippetTokens,
                                                 snippetCount + 1, availableTokens)
                  IN  [sections |-> <<snippetContent>> \o rest.sections,
                       tokensUsed |-> rest.tokensUsed]

\* the loop over context.viewedSnippets: at most 3 snippets, within 30% of
\* the available tokens
RECURSIVE SnippetLoop(_, _, _, _)
SnippetLoop(snippets, tokensUsed, snippetCount, availableTokens) ==
    IF snippets = <<>>
    THEN [sections |-> <<>>, tokensUsed |-> tokensUsed]
    ELSE LET snippetContent == SnippetContent(Head(snippets))
             snippetTokens == estimateTokens(snippetContent)
         IN  IF 10 * (tokensUsed + snippetTokens) > 3 * availableTokens
             THEN [sections |-> <<>>, tokensUsed |-> tokensUsed]
             ELSE IF snippetCount + 1 >= 3
             THEN [sections |-> <<snippetContent>>,
                   tokensUsed |-> tokensUsed + snippetTokens]
             ELSE LET rest == SnippetLoop(Tail(snippets), tokensUsed + snippetTokens,
                                          snippetCount + 1, availableTokens)
                  IN  [sections |-> <<snippetContent>> \o rest.sections,
                       tokensUsed |-> rest.tokensUsed]

\* the recently_viewed_code_snippets part of buildTokenAwareCopilotSections
SnippetPart(context, availableTokens, tokensUsed) ==
    IF availableTokens - tokensUsed > 500
    THEN LET loop == SnippetLoop(context.viewedSnippets, tokensUsed + 30, 0,
                                 availableTokens)
         IN  [sections |-> << <<"<|recently_viewed_code_snippets|>">> >>
                           \o loop.sections
                           \o << <<"<|/recently_viewed_code_snippets|>", NL>> >>,
              tokensUsed |-> loop.tokensUsed + 30]
    ELSE [sections |-> <<>>, tokensUsed |-> tokensUsed]

\* the current_file_content part: the numbered file, cut to its first 50
\* lines when it is estimated above maxFileTokens
FilePart(context, availableTokens, tokensUsed) ==
    IF availableTokens - tokensUsed > 300
    THEN LET maxFileTokens == Min(availableTokens - tokensUsed - 100, 1000)
             fileContent ==
                 IF estimateTokens(context.currentFileContent) > maxFileTokens
                 THEN Join(SliceFirst(Split(context.currentFileContent), 50), <<NL>>)
                      \o <<NL, "// ... [file content truncated] ...", NL>>
                 ELSE context.currentFileContent
         IN  [sections |-> << <<"<|current_file_content|>", NL>> \o fileContent
                              \o <<NL, "<|/current_file_content|>", NL>> >>,
              tokensUsed |-> tokensUsed + estimateTokens(fileContent) + 30]
    ELSE [sections |-> <<>>, tokensUsed |-> tokensUsed]

\* the line of one edit in the edit_diff_history section
EditText(edit) ==
    LET changeDescription ==
            IF edit.oldText # <<>>
            THEN <<"\"">> \o edit.oldText \o <<"\" -> \"">> \o edit.newText \o <<"\"">>
            ELSE <<"Added: \"">> \o edit.newText \o <<"\"">>
    IN  <<"Change at line ", ToString(edit.line + 1), ": ">> \o changeDescription
        \o <<NL>>

\* the loop over the most recent 3 edits, within 10% of the available tokens
RECURSIVE EditLoop(_, _, _)
EditLoop(recentEdits, tokensUsed, availableTokens) ==
    IF recentEdits = <<>>
    THEN [sections |-> <<>>, tokensUsed |-> tokensUsed]
    ELSE LET editText == EditText(Head(recentEdits))
         IN  IF 10 * (tokensUsed + estimateTokens(editText)) > availableTokens
             THEN [sections |-> <<>>, tokensUsed |-> tokensUsed]
             ELSE LET rest == EditLoop(Tail(recentEdits),
                                       tokensUsed + estimateTokens(editText),
                                       availableTokens)
                  IN  [sections |-> <<editText>> \o rest.sections,
                       tokensUsed |-> rest.tokensUsed]

\* the edit_diff_history part
EditPart(context, availableTokens, tokensUsed) ==
    IF availableTokens - tokensUsed > 200 /\ Len(context.editHistory) > 0
    THEN LET loop == EditLoop(SliceLast(context.editHistory, 3), tokensUsed + 25,
                              availableTokens)
         IN  [sections |-> << <<"<|edit_diff_history|>", NL>> >> \o loop.sections
                           \o << <<"<|/edit_diff_history|>", NL>> >>,
              tokensUsed |-> loop.tokensUsed + 25]
    ELSE [sections |-> <<>>, tokensUsed |-> tokensUsed]

\* the file_analysis part
AnalysisPart(context, availableTokens, tokensUsed) ==
    IF availableTokens - tokensUsed > 150
    THEN [sections |->
              << <<"<|file_analysis|>", NL>>,
                 <<"Language: ", context.fileContext.language, NL>> >>
              \o (IF Len(context.fileContext.imports) > 0
                  THEN << <<"Imports: ">>
                          \o Join([i \in 1..Len(SliceFirst(context.fileContext.imports, 3))
                                     |-> <<context.fileContext.imports[i]>>], <<", ">>)
                          \o <<NL>> >>
                  ELSE <<>>)
              \o (IF Len(context.fileContext.functions) > 0
                  THEN << <<"Functions: ">>
                          \o Join([i \in 1..Len(SliceFirst(context.fileContext.functions, 3))
                                     |-> <<context.fileContext.functions[i]>>], <<", ">>)
                          \o <<NL>> >>
                  ELSE <<>>)
              \o << <<"<|/file_analysis|>", NL>> >>,
          tokensUsed |-> tokensUsed + 100]
    ELSE [sections |-> <<>>, tokensUsed |-> tokensUsed]

\* the instruction that follows the code_to_edit section
DeveloperInstruction(context) ==
    <<"The developer was working on a section of code within the tags 'code_to_edit' in the file located at '",
      context.fileName,
      "'. Using the given 'recently_viewed_code_snippets', 'current_file_content', 'edit_diff_history', 'area_around_code_to_edit', and the cursor position marked as '<|cursor|>', please continue the developer's work. Update the 'code_to_edit' section by predicting and completing the changes they would have made next. Provide the revised code that was between the '<|code_to_edit|>' and '<|/code_to_edit|>' tags with the following format, but do not include the tags themselves.",
      NL, NL, Fence, NL, "// Your revised code goes here", NL, Fence, NL, NL>>

\* the sections buildTokenAwareCopilotSections pushes whatever the budget
CriticalSections(context) ==
    << <<"<|area_around_code_to_edit|>", NL>> \o context.areaAroundCode
          \o <<NL, "<|/area_around_code_to_edit|>", NL>>,
       <<"<|code_to_edit|>", NL>> \o context.codeToEdit
          \o <<NL, "<|/code_to_edit|>", NL>>,
       DeveloperInstruction(context),
       <<"Please provide the completed code for the cursor position:">> >>

\* buildTokenAwareCopilotSections(context, availableTokens)
buildTokenAwareCopilotSections(context, availableTokens) ==
    LET snippetPart == SnippetPart(context, availableTokens, 0)
        filePart == FilePart(context, availableTokens, snippetPart.tokensUsed)
        editPart == EditPart(context, availableTokens, filePart.tokensUsed)
        analysisPart == AnalysisPart(context, availableTokens, editPart.tokensUsed)
        sections == snippetPart.sections \o filePart.sections \o editPart.sections
                    \o analysisPart.sections \o CriticalSections(context)
    IN  [content |-> Join(sections, <<NL>>),
         tokensUsed |-> analysisPart.tokensUsed
                        + estimateTokens(context.areaAroundCode)
                        + estimateTokens(context.codeToEdit) + 100]

\* renderOriginalDocument(context)
renderOriginalDocument(context) ==
    LET fileLines == Split(context.currentFileContent)
        lines == [i \in 1..Len(fileLines) |-> <<ToString(i), "|">> \o fileLines[i]]
    IN  <<context.fileName, ":", NL>> \o Join(lines, <<NL>>)

\* the lines renderDocumentDiffs pushes for one edit
DiffLines(edit) ==
    LET lineNum == ToString(edit.line + 1)
    IN  IF edit.oldText # <<>>
        THEN << <<"@@ -", lineNum, ",1 +", lineNum, ",1 @@">>,
                <<"-">> \o edit.oldText,
                <<"+">> \o edit.newText >>
        ELSE << <<"@@ -", lineNum, ",0 +", lineNum, ",1 @@">>,
                <<"+">> \o edit.newText >>

RECURSIVE AllDiffLines(_)
AllDiffLines(edits) ==
    IF edits = <<>> THEN <<>> ELSE DiffLines(Head(edits)) \o AllDiffLines(Tail(edits))

\* renderDocumentDiffs(context)
renderDocumentDiffs(context) ==
    Join(<< <<Fence>>, <<"---", context.fileName, ":">>, <<"+++", context.fileName, ":">> >>
         \o AllDiffLines(context.editHistory) \o << <<Fence>> >>, <<NL>>)

\* a prompt element; PromptFormatter.singleBreak() and doubleBreak()
PromptElement(priority, content) ==
    [priority |-> priority, content |-> content, isBreak |-> FALSE]
singleBreak == [priority |-> 0, content |-> <<>>, isBreak |-> TRUE]
doubleBreak == [priority |-> 0, content |-> <<NL>>, isBreak |-> TRUE]

systemMessage ==
    <<"These are the files I'm working on, before I started making changes to them:">>
finalInstruction ==
    <<"Based on my most recent edits, what will I do next? Rewrite the code between <|code_to_edit|> and <|/code_to_edit|> based on what I will do next. Do not skip any lines. Do not be lazy.">>

\* buildStructuredPrompt(context, maxTokens); maxTokens * 0.6 and * 0.7 are
\* compared in exact arithmetic
buildStructuredPrompt(context, maxTokens) ==
    LET tokens0 == estimateTokens(systemMessage) + 2
        originalCodeContent == renderOriginalDocument(context)
        withOriginal ==
            10 * (tokens0 + estimateTokens(originalCodeContent)) < 6 * maxTokens
        tokens1 == IF withOriginal
                   THEN tokens0 + estimateTokens(originalCodeContent) + 50
                   ELSE tokens0
        editHistoryContent == renderDocumentDiffs(context)
        withEdits ==
            10 * (tokens1 + estimateTokens(editHistoryContent)) < 7 * maxTokens
        tokens2 == IF withEdits
                   THEN tokens1 + estimateTokens(editHistoryContent) + 100
                   ELSE tokens1
        currentEditHeader ==
            <<"Here is the piece of code I am currently editing in ",
              context.fileName, ":">>
        tokens3 == tokens2 + estimateTokens(currentEditHeader) + 2
        copilotSections ==
            buildTokenAwareCopilotSections(context, maxTokens - tokens3 - 200)
    IN  <<PromptElement(1000, systemMessage)>>
        \o (IF withOriginal
            THEN <<PromptElement(998, <<"<|original_code|>">>), singleBreak,
                   PromptElement(300, originalCodeContent), singleBreak,
                   PromptElement(995, <<"<|/original_code|>">>), doubleBreak>>
            ELSE <<>>)
        \o (IF withEdits
            THEN <<PromptElement(900, <<"This is a sequence of edits that I made on these files, starting from the oldest to the newest:">>),
                   singleBreak,
                   PromptElement(898, <<"<|edits_to_original_code|>">>), singleBreak,
                   PromptElement(300, editHistoryContent), singleBreak,
                   PromptElement(895, <<"<|/edits_to_original_code|>">>), doubleBreak>>
            ELSE <<>>)
        \o <<PromptElement(300, currentEditHeader), doubleBreak,
             PromptElement(350, copilotSections.content), doubleBreak,
             PromptElement(280, finalInstruction)>>

\* (mutant of SortByPriority: of two elements of one priority the later comes first)
RECURSIVE SortByPriorityTiesReversed(_)
SortByPriorityTiesReversed(elements) ==
    IF elements = <<>> THEN <<>>
    ELSE LET last == elements[Len(elements)]
             sorted == SortByPriorityTiesReversed(SubSeq(elements, 1, Len(elements) - 1))
             Above(e) == e.priority > last.priority
             k == Len(SelectSeq(sorted, Above))
         IN  SubSeq(sorted, 1, k) \o <<last>> \o SubSeq(sorted, k + 1, Len(sorted))

\* the availableTokens buildStructuredPrompt passes to
\* buildTokenAwareCopilotSections: maxTokens - currentTokens - 200
copilotAvailableTokens(context, maxTokens) ==
    LET tokens0 == estimateTokens(systemMessage) + 2
        originalCodeContent == renderOriginalDocument(context)
        tokens1 == IF 10 * (tokens0 + estimateTokens(originalCodeContent)) < 6 * maxTokens
                   THEN tokens0 + estimateTokens(originalCodeContent) + 50
                   ELSE tokens0
        editHistoryContent == renderDocumentDiffs(context)
        tokens2 == IF 10 * (tokens1 + estimateTokens(editHistoryContent)) < 7 * maxTokens
                   THEN tokens1 + estimateTokens(editHistoryContent) + 100
                   ELSE tokens1
        currentEditHeader ==
            <<"Here is the piece of code I am currently editing in ",
              context.fileName, ":">>
    IN  maxTokens - (tokens2 + estimateTokens(currentEditHeader) + 2) - 200

\* Array.prototype.sort((a, b) => b.priority - a.priority): stable, highest
\* priority first
RECURSIVE SortByPriority(_)
SortByPriority(elements) ==
    IF elements = <<>> THEN <<>>
    ELSE LET last == elements[Len(elements)]
             sorted == SortByPriority(SubSeq(elements, 1, Len(elements) - 1))
             NotBelow(e) == e.priority >= last.priority
             k == Len(SelectSeq(sorted, NotBelow))
         IN  SubSeq(sorted, 1, k) \o <<last>> \o SubSeq(sorted, k + 1, Len(sorted))

\* the loop of renderPromptElements: a break is a newline unless it follows
\* a break
RECURSIVE RenderLoop(_, _)
RenderLoop(sortedElements, lastWasBreak) ==
    IF sortedElements = <<>> THEN <<>>
    ELSE LET element == Head(sortedElements)
         IN  IF element.isBreak
             THEN (IF lastWasBreak THEN <<>> ELSE <<NL>>)
                  \o RenderLoop(Tail(sortedElements), TRUE)
             ELSE element.content \o RenderLoop(Tail(sortedElements), FALSE)

\* (mutant of CollapseNewlines: only a run at the start of the text is collapsed)
CollapseNewlinesAtStart(text) ==
    LET Kept(i) == ~(text[i] = NL /\ i = 3 /\ text[i - 1] = NL /\ text[i - 2] = NL)
        kept == SelectSeq([i \in 1..Len(text) |-> i], Kept)
    IN  [k \in 1..Len(kept) |-> text[kept[k]]]

\* String.prototype.replace(/\n\n\n+/g, '\n\n'): of a run of newlines the
\* first two are kept
CollapseNewlines(text) ==
    LET Kept(i) == ~(text[i] = NL /\ i >= 3 /\ text[i - 1] = NL /\ text[i - 2] = NL)
        kept == SelectSeq([i \in 1..Len(text) |-> i], Kept)
    IN  [k \in 1..Len(kept) |-> text[kept[k]]]

\* an atom of white space only
IsBlank(atom) == atom \in {NL, " ", "  ", "\t"}

\* (mutant of Trim: only the white space at the start is removed)
TrimStart(text) ==
    LET solid == {i \in 1..Len(text) : ~IsBlank(text[i])}
    IN  IF solid = {} THEN <<>>
        ELSE SubSeq(text, CHOOSE i \in solid : \A j \in solid : i <= j, Len(text))

\* String.prototype.trim(): the atoms of white space at both ends are removed
Trim(text) ==
    LET solid == {i \in 1..Len(text) : ~IsBlank(text[i])}
    IN  IF solid = {} THEN <<>>
        ELSE SubSeq(text, CHOOSE i \in solid : \A j \in solid : i <= j,
                          CHOOSE i \in solid : \A j \in solid : i >= j)

\* renderPromptElements(elements)
renderPromptElements(elements) ==
    Trim(CollapseNewlines(RenderLoop(SortByPriority(elements), FALSE)))

\* a document with the cursor between prefixText and suffixText on the line
\* after the lines before
MakeDocument(fileName, languageId, before, prefixText, suffixText, after, imports, functions) ==
    [fileName |-> fileName, languageId |-> languageId,
     lines |-> before \o <<prefixText \o suffixText>> \o after,
     line |-> Len(before), prefixText |-> prefixText, suffixText |-> suffixText,
     imports |-> imports, functions |-> functions]

Repeat(x, n) == [i \in 1..n |-> x]

\* a line of 100 characters
LongLine ==
    "0123456789012345678901234567890123456789012345678901234567890123456789012345678901234567890123456789"

\* the documents prompts are assembled for: one line; blank lines around the
\* cursor line; a long file with the cursor on an empty line; a file of 60
\* lines, 59 of them long; a file of a language without patterns
PromptDocuments ==
    { MakeDocument("a.ts", "typescript", <<>>, <<"x">>, <<>>, <<>>, <<>>, <<>>),
      MakeDocument("a.ts", "typescript",
                   << <<"import a">>, <<>>, <<>>, <<>> >>, <<"  ", "f(">>, <<")">>,
                   << <<>>, <<>>, <<"end">> >>,
                   <<"import a">>, <<"f", "g", "h", "k">>),
      MakeDocument("b.py", "python",
                   Repeat(<<"v = 1">>, 40), <<>>, <<>>, Repeat(<<"w = 2">>, 25),
                   <<>>, <<"main">>),
      MakeDocument("b.py", "python",
                   Repeat(<<LongLine>>, 30), <<"q">>, <<>>, Repeat(<<LongLine>>, 29),
                   <<>>, <<>>),
      MakeDocument("c.rs", "rust", << <<"use a;">> >>, <<"fn ">>, <<>>, <<>>,
                   <<>>, <<>>) }

\* the edit histories of the file: none; one insertion of text with blank
\* lines; insertions and deletions
PromptEdits ==
    { <<>>,
      << [line |-> 0, oldText |-> <<>>, newText |-> <<"y", NL, NL, NL, "z">>] >>,
      << [line |-> 0, oldText |-> <<>>, newText |-> <<"a">>],
         [line |-> 1, oldText |-> <<"b">>, newText |-> <<>>],
         [line |-> 2, oldText |-> <<>>, newText |-> <<>>],
         [line |-> 3, oldText |-> <<>>, newText |-> <<"c">>] >> }

\* the snippets viewed in files of a language, the oldest first: none, 4 short
\* ones, or 4 of 20 lines
PromptSnippets(language) ==
    { <<>>,
      [i \in 1..4 |-> [timestamp |-> i, fileName |-> "lib" \o ToString(i),
                       language |-> language, content |-> <<"s", NL, NL, "t">>]],
      [i \in 1..4 |-> [timestamp |-> i, fileName |-> "mod" \o ToString(i),
                       language |-> language,
                       content |-> Join(Repeat(<<"w = 2">>, 20), <<NL>>)]] }

\* the token budgets
PromptBudgets == {0, 400, 1200, 3500}

PromptInputs ==
    UNION { { [document |-> d, edits |-> e, snippets |-> s, maxTokens |-> m] :
                e \in PromptEdits, s \in PromptSnippets(d.languageId),
                m \in PromptBudgets } : d \in PromptDocuments }

\* cleanCompletion works on the characters of the reply: its texts are
\* sequences of characters (NL is the newline, Backtick the backtick)
Digits == {"0", "1", "2", "3", "4", "5", "6", "7", "8", "9"}
Letters ==
    {"a", "b", "c", "d", "e", "f", "g", "h", "i", "j", "k", "l",
     "m", "n", "o", "p", "q", "r", "s", "t", "u", "v", "w", "x",
     "y", "z", "A", "B", "C", "D", "E", "F", "G", "H", "I", "J",
     "K", "L", "M", "N", "O", "P", "Q", "R", "S", "T", "U", "V",
     "W", "X", "Y", "Z"}
\* \w
WordChars == Letters \cup Digits \cup {"_"}
\* \s
WhiteSpace == {" ", "\t", NL}
FenceChars == <<Backtick, Backtick, Backtick>>
CursorChars == <<"<", "|", "c", "u", "r", "s", "o", "r", "|", ">">>

\* String.prototype.startsWith
StartsWith(text, prefix) ==
    Len(prefix) <= Len(text) /\ SubSeq(text, 1, Len(prefix)) = prefix

\* String.prototype.substring(n)
Substring(text, n) == SubSeq(text, n + 1, Len(text))

\* the characters of text at the positions not in removed
Without(text, removed) ==
    LET kept == SelectSeq([i \in 1..Len(text) |-> i], LAMBDA i : i \notin removed)
    IN  [k \in 1..Len(kept) |-> text[kept[k]]]

\* replace(/^```[\w]*\n?/, ''): a fence at the start of the reply goes with
\* the word characters after it and one newline after those
StripOpeningFence(text) ==
    IF ~StartsWith(text, FenceChars) THEN text
    ELSE LET tagEnd == CHOOSE e \in 3..Len(text) :
                          /\ \A k \in 4..e : text[k] \in WordChars
                          /\ e < Len(text) => text[e + 1] \notin WordChars
         IN  IF tagEnd < Len(text) /\ text[tagEnd + 1] = NL
             THEN Substring(text, tagEnd + 1)
             ELSE Substring(text, tagEnd)

\* replace(/\n?```$/, ''): a fence at the end of the reply goes with the
\* newline before it
StripClosingFence(text) ==
    LET n == Len(text)
    IN  IF n < 3 \/ SubSeq(text, n - 2, n) # FenceChars THEN text
        ELSE IF n > 3 /\ text[n - 3] = NL THEN SubSeq(text, 1, n - 4)
        ELSE SubSeq(text, 1, n - 3)

\* replace(/<\|cursor\|>/g, '')
RemoveCursor(text) ==
    LET n == Len(CursorChars)
        starts == {j \in 1..(Len(text) - n + 1) : SubSeq(text, j, j + n - 1) = CursorChars}
    IN  Without(text, {i \in 1..Len(text) : \E j \in starts : j <= i /\ i < j + n})

\* the last position of the match of /^\d+\|\s*/m that starts at position p
\* of the text, 0 if there is none: p starts a line, digits follow up to a
\* bar, and the white space after the bar belongs to the match
LineNumberEnd(text, p) ==
    IF ~((p = 1 \/ text[p - 1] = NL) /\ text[p] \in Digits) THEN 0
    ELSE LET d == CHOOSE e \in p..Len(text) :
                     /\ \A k \in p..e : text[k] \in Digits
                     /\ e < Len(text) => text[e + 1] \notin Digits
         IN  IF d = Len(text) \/ text[d + 1] # "|" THEN 0
             ELSE CHOOSE e \in (d + 1)..Len(text) :
                     /\ \A k \in (d + 2)..e : text[k] \in WhiteSpace
                     /\ e < Len(text) => text[e + 1] \notin WhiteSpace

\* (mutant of StripLineNumbers: only the first line is stripped)
StripLineNumbersFirstLine(text) ==
    Without(text, {i \in 1..Len(text) : 1 <= i /\ i <= LineNumberEnd(text, 1)})

\* replace(/^\d+\|\s*/gm, '')
StripLineNumbers(text) ==
    Without(text, {i \in 1..Len(text) :
                     \E p \in 1..i : i <= LineNumberEnd(text, p)})

\* if (completion.startsWith(context.prefixText)) completion =
\* completion.substring(context.prefixText.length)
StripPrefix(text, prefixText) ==
    IF StartsWith(text, prefixText) THEN Substring(text, Len(prefixText)) ELSE text

\* cleanCompletion(completion, context), context.prefixText being prefixText
cleanCompletion(completion, prefixText) ==
    CollapseNewlines(
        StripPrefix(
            StripLineNumbers(RemoveCursor(StripClosingFence(StripOpeningFence(completion)))),
            prefixText))

\* the replies cleanCompletion is applied to are built from a language tag,
\* a line number and the code of a line
CleanTags == {<<"j", "s">>, <<>>, <<"c", "+", "+">>}
CleanNumbers == {<<"1">>, <<"1", "2">>}
CleanCodes ==
    {<<"f", "o", "o", "(", ")">>,
     <<" ", " ", "r", "e", "t", "u", "r", "n", " ", "x">>,
     <<"f", "o", "(", "<", "|", "c", "u", "r", "s", "o", "r", "|", ">", ")">>,
     <<"x", "<", "|", "c", "u", "r">> \o CursorChars \o <<"s", "o", "r", "|", ">">>}
CleanPrefixes == {<<>>, <<"f", "o">>}

\* a line of code after its line number, as addLineNumbers writes it
NumberedLine(number, code) == number \o <<"|", " ">> \o code

\* n numbered lines of the same code
RECURSIVE NumberedLines(_, _, _)
NumberedLines(number, code, n) ==
    IF n = 1 THEN NumberedLine(number, code)
    ELSE NumberedLines(number, code, n - 1) \o <<NL>> \o NumberedLine(number, code)

\* the lines between an opening fence with a language tag and a closing fence
Fenced(tag, lines) == FenceChars \o tag \o <<NL>> \o lines \o <<NL>> \o FenceChars

\* the replies, which generateCompletion has trimmed: fenced numbered lines,
\* the same without the closing fence, the numbered lines alone, and the code
\* alone
CleanReplies ==
    UNION {{Fenced(tag, NumberedLines(number, code, n)),
            FenceChars \o tag \o <<NL>> \o NumberedLines(number, code, n),
            NumberedLines(number, code, n),
            IF code[1] \in WhiteSpace THEN NumberedLine(number, code) ELSE code} :
           <<tag, number, code, n>> \in
               CleanTags \X CleanNumbers \X CleanCodes \X (1..CleanMaxLines)}

CleanInputs == [completion : CleanReplies, prefixText : CleanPrefixes]
NoCleanInput == [completion |-> <<>>, prefixText |-> <<>>]

\* no reply is being cleaned
NoCleaning ==
    /\ cleanInput = NoCleanInput
    /\ cleaned = <<>>
    /\ cleanPc = "none"

\* generateCompletion applies cleanCompletion to the reply of the backend
ApplyCleanCompletion ==
    /\ cleanPc = "reply"
    /\ cleaned' = cleanCompletion(cleanInput.completion, cleanInput.prefixText)
    /\ cleanPc' = "cleaned"
    /\ UNCHANGED <<cleanInput, promptInput, promptContext, promptElements, finalPrompt,
                   promptPc, chatVars, configVars, readVars>>
    /\ UNCHANGED <<clockVars, editVars, snippetVars, freshVars, returnVars, expiries,
                   cacheVars, callVars, providerVars>>

NoPromptInput == [document |-> "none", edits |-> <<>>, snippets |-> <<>>, maxTokens |-> 0]

\* generateCompletion applies buildContext to the document and the cursor
ApplyBuildContext ==
    /\ promptPc = "input"
    /\ promptContext' = <<buildContext(promptInput.document, promptInput.edits,
                                       promptInput.snippets)>>
    /\ promptPc' = "context"
    /\ UNCHANGED <<promptInput, promptElements, finalPrompt, cleanVars, chatVars, configVars, readVars>>
    /\ UNCHANGED <<clockVars, editVars, snippetVars, freshVars, returnVars, expiries, cacheVars, callVars, providerVars>>

\* generateCompletion applies buildStructuredPrompt to the context
ApplyBuildStructuredPrompt ==
    /\ promptPc = "context"
    /\ promptElements' = buildStructuredPrompt(promptContext[1], promptInput.maxTokens)
    /\ promptPc' = "elements"
    /\ UNCHANGED <<promptInput, promptContext, finalPrompt, cleanVars, chatVars, configVars, readVars>>
    /\ UNCHANGED <<clockVars, editVars, snippetVars, freshVars, returnVars, expiries, cacheVars, callVars, providerVars>>

\* generateCompletion applies renderPromptElements to the elements
ApplyRenderPromptElements ==
    /\ promptPc = "elements"
    /\ finalPrompt' = renderPromptElements(promptElements)
    /\ promptPc' = "rendered"
    /\ UNCHANGED <<promptInput, promptContext, promptElements, cleanVars, chatVars, configVars, readVars>>
    /\ UNCHANGED <<clockVars, editVars, snippetVars, freshVars, returnVars, expiries, cacheVars, callVars, providerVars>>

----------------------------------------------------------------------------
(* ChatProvider (chatProvider.ts).                                         *)
(* A message text is a sequence of characters.  An attachment carries the  *)
(* number of its addition and a message the number of its send, so that    *)
(* two attachments, and two messages, are told apart.                      *)

\* the texts the webview sends
ChatTexts == {<<>>, <<" ", " ">>, <<" ", "h">>}
\* the files of the workspace and the selections in them
ChatFiles == {"a.ts"}
ChatLines == {[start |-> 1, end |-> 2]}

NoLines == [start |-> 0, end |-> 0]
NoSend == [text |-> <<>>, pending |-> <<>>, ignored |-> TRUE, send |-> 0]

\* addFileToChat(uri)
addFileToChat(name) ==
    /\ pendingAttachments' = Append(pendingAttachments,
           [type |-> "file", name |-> name, lines |-> NoLines, id |-> nAttachments + 1])
    /\ nAttachments' = nAttachments + 1
    /\ UNCHANGED <<messages, chatSends, nSends, nClears, clearedSends, sentLog, lastSend>>
    /\ UNCHANGED <<clockVars, editVars, snippetVars, freshVars, returnVars, expiries,
                   promptVars, configVars, readVars, cacheVars, callVars, providerVars>>

\* addSelectionToChat(): the active editor has a non-empty selection
addSelectionToChat(name, lines) ==
    /\ pendingAttachments' = Append(pendingAttachments,
           [type |-> "selection", name |-> name, lines |-> lines, id |-> nAttachments + 1])
    /\ nAttachments' = nAttachments + 1
    /\ UNCHANGED <<messages, chatSends, nSends, nClears, clearedSends, sentLog, lastSend>>
    /\ UNCHANGED <<clockVars, editVars, snippetVars, freshVars, returnVars, expiries,
                   promptVars, configVars, readVars, cacheVars, callVars, providerVars>>

\* (mutant of Splice: the elements from the index on are removed)
SpliceToEnd(s, index) == SubSeq(s, 1, Min(index, Len(s)))

\* s.splice(index, 1) for an index from 0
Splice(s, index) ==
    IF index < Len(s)
    THEN SubSeq(s, 1, index) \o SubSeq(s, index + 2, Len(s))
    ELSE s

\* _removeAttachment(index)
removeAttachment(index) ==
    /\ pendingAttachments' = Splice(pendingAttachments, index)
    /\ UNCHANGED <<messages, chatSends, nSends, nAttachments, nClears, clearedSends,
                   sentLog, lastSend>>
    /\ UNCHANGED <<clockVars, editVars, snippetVars, freshVars, returnVars, expiries,
                   promptVars, configVars, readVars, cacheVars, callVars, providerVars>>

\* (mutant of UserMessage: the message carries no attachments)
UserMessageBare(text, pending) ==
    [role |-> "user", content |-> text, attachments |-> <<>>, send |-> nSends + 1]

\* the user message of _handleSendMessage (attachments in a sequence; empty: undefined)
UserMessage(text, pending) ==
    [role |-> "user", content |-> text,
     attachments |-> IF Len(pending) > 0 THEN <<pending>> ELSE <<>>,
     send |-> nSends + 1]

\* the assistant message _handleSendMessage pushes once _sendToAI has settled
AssistantMessage(c, outcome) ==
    [role |-> "assistant",
     content |-> IF outcome = "ok" THEN <<"r", "e", "p", "l", "y">>
                 ELSE <<"E", "r", "r", "o", "r", ":">>,
     attachments |-> <<>>, send |-> c.send]

\* _handleSendMessage(text) up to the await of axios.post in _sendToAI, or to
\* its return for a blank text without attachments
handleSendMessage(text) ==
    IF Trim(text) = <<>> /\ Len(pendingAttachments) = 0
    THEN /\ lastSend' = [text |-> text, pending |-> pendingAttachments,
                         ignored |-> TRUE, send |-> 0]
         /\ UNCHANGED <<messages, pendingAttachments, chatSends, nSends, nAttachments,
                        nClears, clearedSends, sentLog>>
         /\ UNCHANGED <<clockVars, editVars, snippetVars, freshVars, returnVars, expiries,
                        promptVars, configVars, readVars, cacheVars, callVars, providerVars>>
    ELSE /\ messages' = Append(messages, UserMessage(text, pendingAttachments))
         /\ pendingAttachments' = <<>>
         /\ chatSends' = chatSends \cup
                {[send |-> nSends + 1, messages |-> Len(messages) + 1,
                  headers |-> Headers(ReadApiKey)]}
         /\ nSends' = nSends + 1
         /\ sentLog' = Append(sentLog, UserMessage(text, pendingAttachments))
         /\ lastSend' = [text |-> text, pending |-> pendingAttachments,
                         ignored |-> FALSE, send |-> nSends + 1]
         /\ UNCHANGED <<nAttachments, nClears, clearedSends>>
         /\ UNCHANGED <<clockVars, editVars, snippetVars, freshVars, returnVars, expiries,
                        promptVars, configVars, readVars, cacheVars, callVars, providerVars>>

\* what the backend does with a chat request
ChatOutcomes == {"ok", "error"}

\* _sendToAI settles and _handleSendMessage runs to its end
sendSettles(c, outcome) ==
    /\ c \in chatSends
    /\ messages' = Append(messages, AssistantMessage(c, outcome))
    /\ chatSends' = chatSends \ {c}
    /\ UNCHANGED <<pendingAttachments, nSends, nAttachments, nClears, clearedSends,
                   sentLog, lastSend>>
    /\ UNCHANGED <<clockVars, editVars, snippetVars, freshVars, returnVars, expiries,
                   promptVars, configVars, readVars, cacheVars, callVars, providerVars>>

\* _clearChat()
clearChat ==
    /\ messages' = <<>>
    /\ pendingAttachments' = <<>>
    /\ nClears' = nClears + 1
    /\ clearedSends' = nSends
    /\ UNCHANGED <<chatSends, nSends, nAttachments, sentLog, lastSend>>
    /\ UNCHANGED <<clockVars, editVars, snippetVars, freshVars, returnVars, expiries,
                   promptVars, configVars, readVars, cacheVars, callVars, providerVars>>

----------------------------------------------------------------------------

\* the state after the construction of the ContextService, the provider and the chat
InitService ==
    /\ now = StartTime
    /\ docs = [f \in Files |-> 0]
    /\ editHistory = <<>>
    /\ viewedSnippets = <<>>
    /\ fileContextCache = [f \in Files |-> NoEntry]
    /\ timers = {}
    /\ editorCalls = {}
    /\ lastRequestTime = 0
    /\ isManualTrigger = FALSE
    /\ completionsEnabled = TRUE
    /\ requests = {}
    /\ lastDone = NoRequest
    /\ lastPassedAt = -1
    /\ nRequests = 0
    /\ recorded = <<>>
    /\ lastHit = NoHit
    /\ nTicks = 0
    /\ nEditEvents = 0
    /\ nCtxCalls = 0
    /\ recordedSnippets = <<>>
    /\ nSelections = 0
    /\ ctxReturns = [f \in Files |-> NoReturn]
    /\ lastPair = NoPair
    /\ expiries = [f \in Files |-> 0]
    /\ invalidated = [f \in Files |-> FALSE]
    /\ lastFresh = NoFresh
    /\ removals = [f \in Files |-> <<>>]
    /\ lastConverged = NoFresh
    /\ apiKey = <<>>
    /\ nKeyChanges = 0
    /\ messages = <<>>
    /\ pendingAttachments = <<>>
    /\ chatSends = {}
    /\ nSends = 0
    /\ nAttachments = 0
    /\ nClears = 0
    /\ clearedSends = 0
    /\ sentLog = <<>>
    /\ lastSend = NoSend
    /\ lastRead = NoRead
    /\ nReads = 0

\* no prompt is being assembled
Init ==
    /\ InitService
    /\ promptInput = NoPromptInput
    /\ promptContext = <<>>
    /\ promptElements = <<>>
    /\ finalPrompt = <<>>
    /\ promptPc = "none"
    /\ NoCleaning

\* a prompt is to be assembled for one of the inputs
InitPrompt ==
    /\ InitService
    /\ promptInput \in PromptInputs
    /\ promptContext = <<>>
    /\ promptElements = <<>>
    /\ finalPrompt = <<>>
    /\ promptPc = "input"
    /\ NoCleaning

\* prompt elements renderPromptElements may be given: breaks, and contents of
\* several priorities with newlines and blanks at their ends and inside
RenderElements ==
    {singleBreak, doubleBreak,
     PromptElement(3, <<NL, "x">>),
     PromptElement(3, <<"w">>),
     PromptElement(2, <<NL, NL, NL>>),
     PromptElement(2, <<"a", NL, NL, NL, NL, "b">>),
     PromptElement(1, <<"y", " ">>),
     PromptElement(1, <<>>),
     PromptElement(4, <<"\t", "z", NL>>)}

\* the lists of at most RenderMaxElements elements
RenderInputs == UNION {[1..n -> RenderElements] : n \in 0..RenderMaxElements}

\* renderPromptElements is to be applied to one of the lists
InitRender ==
    /\ InitService
    /\ promptInput = NoPromptInput
    /\ promptContext = <<>>
    /\ promptElements \in RenderInputs
    /\ finalPrompt = <<>>
    /\ promptPc = "elements"
    /\ NoCleaning

\* cleanCompletion is to be applied to one of the replies
InitClean ==
    /\ InitService
    /\ promptInput = NoPromptInput
    /\ promptContext = <<>>
    /\ promptElements = <<>>
    /\ finalPrompt = <<>>
    /\ promptPc = "none"
    /\ cleanInput \in CleanInputs
    /\ cleaned = <<>>
    /\ cleanPc = "reply"

SpecClean == InitClean /\ [][ApplyCleanCompletion]_vars

SpecRender == InitRender /\ [][ApplyRenderPromptElements]_vars

\* the assembly of the prompt of a completion request
PromptNext ==
    \/ ApplyBuildContext
    \/ ApplyBuildStructuredPrompt
    \/ ApplyRenderPromptElements

SpecPrompt == InitPrompt /\ [][PromptNext]_vars

\* the edit history under change events of every size
HistoryNext ==
    \/ \E f \in Files, n \in ChangeCounts :
          nEditEvents < HistMaxEditEvents /\ onDocumentChange(f, n)
    \/ \E d \in TickSteps : nTicks < HistMaxTicks /\ Tick(d)

SpecHistory == Init /\ [][HistoryNext]_vars

\* the analysis cache under edits, editor changes, closes and expiry timers
CacheNext ==
    \/ \E f \in Files : nEditEvents < CacheMaxEditEvents /\ onDocumentChange(f, 1)
    \/ \E f \in Files : nCtxCalls < CacheMaxCalls /\ onActiveEditorChange(f)
    \/ \E c \in editorCalls : editorCallResume(c)
    \/ \E t \in timers : timerFire(t)
    \/ \E f \in Files : onDocumentClose(f)
    \/ \E d \in TickSteps : nTicks < CacheMaxTicks /\ Tick(d)

SpecCache == Init /\ [][CacheNext]_vars

\* the requests of both paths under changes of the API key
HeadersNext ==
    \/ \E k \in ConfiguredKeys : nKeyChanges < HdrMaxKeyChanges /\ setApiKey(k)
    \/ \E f \in Files : nRequests < HdrMaxRequests /\ provideInlineCompletionItems(f, "Invoke")
    \/ \E f \in Files : nRequests < HdrMaxRequests /\ triggerManualCompletion(f)
    \/ \E r \in requests : generateCompletionPost(r)
    \/ \E r \in requests : respond(r, "ok")

SpecHeaders == Init /\ [][HeadersNext]_vars

\* the chat: attachments, sends, their replies and clears
ChatNext ==
    \/ \E name \in ChatFiles : nAttachments < ChatMaxAttachments /\ addFileToChat(name)
    \/ \E name \in ChatFiles, lines \in ChatLines :
          nAttachments < ChatMaxAttachments /\ addSelectionToChat(name, lines)
    \/ \E index \in 0..Len(pendingAttachments) : removeAttachment(index)
    \/ \E text \in ChatTexts : nSends < ChatMaxSends /\ handleSendMessage(text)
    \/ \E c \in chatSends, outcome \in ChatOutcomes : sendSettles(c, outcome)
    \/ nClears < ChatMaxClears /\ clearChat

SpecChat == Init /\ [][ChatNext]_vars

\* the windows and languages of the read operations
ReadWindows == {RapidWindowMs, EditWindowMs}
ReadLanguages == {Language(f) : f \in Files}

\* edits, selections and cached analyses of two files
FrameNext ==
    \/ \E f \in Files : nEditEvents < FrameMaxEditEvents /\ onDocumentChange(f, 1)
    \/ \E f \in Files, selection \in Selections :
          nSelections < FrameMaxSelections /\ onSelectionChange(f, selection)
    \/ \E f \in Files : nCtxCalls < FrameMaxCalls /\ onActiveEditorChange(f)
    \/ \E c \in editorCalls : editorCallResume(c)

SpecFrame == Init /\ [][FrameNext]_vars

\* the read operations between edits, selections, a cached analysis and clock
\* advances
ReadsNext ==
    \/ nEditEvents < ReadMaxEditEvents /\ onDocumentChange("a.ts", 1)
    \/ nSelections < ReadMaxSelections /\ onSelectionChange("a.ts", [start |-> 0, end |-> 1])
    \/ nCtxCalls < ReadMaxCalls /\ onActiveEditorChange("b.py")
    \/ \E c \in editorCalls : editorCallResume(c)
    \/ nTicks < ReadMaxTicks /\ Tick(RapidWindowMs)
    \/ \E w \in ReadWindows : nReads < ReadMaxReads /\ callGetRecentEditHistory(w)
    \/ \E f \in Files, w \in ReadWindows :
          nReads < ReadMaxReads /\ callGetEditHistoryForFile(f, w)
    \/ \E w \in ReadWindows : nReads < ReadMaxReads /\ callGetRecentViewedSnippets(w)
    \/ \E l \in ReadLanguages, w \in ReadWindows :
          nReads < ReadMaxReads /\ callGetSnippetsForLanguage(l, w)
    \/ nReads < ReadMaxReads /\ callGetStats

SpecReads == Init /\ [][ReadsNext]_vars

\* the documents completions are requested for
RequestFiles == {"a.ts"}
TriggerKinds == {"Automatic", "Invoke"}
\* the clock advances of the provider's specifications
ProvTickSteps == {debounceMs \div 2, RequestTimeoutMs}

\* completion requests, their cancellation and the backend's outcomes, under
\* clock advances and changes of the setting
\* (no document is edited here, so the rapid-typing guard, the only reader of
\* the trigger kind, suppresses nothing: the host's calls are Automatic)
ProviderNext ==
    \/ \E f \in RequestFiles :
          nRequests < ProvMaxRequests /\ provideInlineCompletionItems(f, "Automatic")
    \/ \E f \in RequestFiles :
          nRequests < ProvMaxRequests /\ triggerManualCompletion(f)
    \/ \E r \in requests : generateCompletionPost(r)
    \/ \E r \in requests, outcome \in Outcomes : respond(r, outcome)
    \/ \E r \in requests : cancel(r)
    \/ toggleCompletions
    \/ \E d \in ProvTickSteps : nTicks < ProvMaxTicks /\ Tick(d)

SpecProvider == Init /\ [][ProviderNext]_vars

\* the change events of the typing specification: file and number of changes
TypChanges == {<<"a.ts", 3>>, <<"b.py", maxHistoryItems>>}

\* completion requests while the user is typing, with a backend that answers
TypingNext ==
    \/ \E ch \in TypChanges :
          nEditEvents < TypMaxEditEvents /\ onDocumentChange(ch[1], ch[2])
    \/ \E f \in RequestFiles, kind \in TriggerKinds :
          nRequests < TypMaxRequests /\ provideInlineCompletionItems(f, kind)
    \/ \E f \in RequestFiles :
          nRequests < TypMaxRequests /\ triggerManualCompletion(f)
    \/ \E r \in requests : generateCompletionPost(r)
    \/ \E r \in requests : respond(r, "ok")
    \/ \E d \in ProvTickSteps : nTicks < TypMaxTicks /\ Tick(d)

SpecTyping == Init /\ [][TypingNext]_vars

\* the clock advances of the query specification: the windows of the provider
QueryTickSteps == {RapidWindowMs, EditWindowMs}

\* the edit history and the snippet store under edits, selections and clock
\* advances of the size of the query windows
QueryNext ==
    \/ \E f \in Files : nEditEvents < QryMaxEditEvents /\ onDocumentChange(f, 1)
    \/ \E f \in Files, selection \in Selections :
          nSelections < QryMaxSelections /\ onSelectionChange(f, selection)
    \/ \E d \in QueryTickSteps : nTicks < QryMaxTicks /\ Tick(d)

SpecQueries == Init /\ [][QueryNext]_vars

\* the snippet store filled beyond its capacity, beside an edit event that
\* fills the edit history to its own capacity
SnippetsNext ==
    \/ \E f \in Files, selection \in Selections :
          nSelections < SnipMaxSelections /\ onSelectionChange(f, selection)
    \/ nEditEvents < SnipMaxEditEvents /\ onDocumentChange("a.ts", maxHistoryItems)

SpecSnippets == Init /\ [][SnippetsNext]_vars

\* no expiry timer is due

\* the file context cache under three getFileContext calls and one edit
CallsNext ==
    \/ \E f \in Files : nEditEvents < CallMaxEditEvents /\ onDocumentChange(f, 1)
    \/ \E f \in Files : nCtxCalls < CallMaxCalls /\ onActiveEditorChange(f)
    \/ \E c \in editorCalls : editorCallResume(c)
    \/ \E t \in timers : timerFire(t)
    \/ \E f \in Files : onDocumentClose(f)
    \/ nTicks < CallMaxTicks /\ Tick(cacheTimeout)

SpecCalls == Init /\ [][CallsNext]_vars

NoTimerDue == \A t \in timers : t.due > now

\* advancing the clock to time t passes no timer's due time
NotPastDue(t) == \A tm \in timers : t <= tm.due

\* SpecCache with expiry timers that fire when due: a due timer fires before
\* any other handler runs, and the clock does not pass a due time
TimelyNext ==
    \/ \E t \in timers : timerFire(t)
    \/ \E f \in Files :
          NoTimerDue /\ nEditEvents < CacheMaxEditEvents /\ onDocumentChange(f, 1)
    \/ \E f \in Files :
          NoTimerDue /\ nCtxCalls < CacheMaxCalls /\ onActiveEditorChange(f)
    \/ \E c \in editorCalls : NoTimerDue /\ editorCallResume(c)
    \/ \E f \in Files : NoTimerDue /\ onDocumentClose(f)
    \/ \E d \in TickSteps :
          NoTimerDue /\ nTicks < CacheMaxTicks /\ NotPastDue(now + d) /\ Tick(d)

SpecTimely == Init /\ [][TimelyNext]_vars

\* the clock advances of the expiry specification: a short pause, the rest of
\* the cache timeout after it, and the cache timeout
ExpTickSteps == {debounceMs \div 2, cacheTimeout - debounceMs \div 2, cacheTimeout}

\* the cache under editor changes, edits, closes and clearCache, with expiry
\* timers that fire when due
ExpiryNext ==
    \/ \E t \in timers : timerFire(t)
    \/ \E f \in Files :
          NoTimerDue /\ nEditEvents < ExpMaxEditEvents /\ onDocumentChange(f, 1)
    \/ \E f \in RequestFiles :
          NoTimerDue /\ nCtxCalls < ExpMaxCalls /\ onActiveEditorChange(f)
    \/ \E c \in editorCalls : NoTimerDue /\ editorCallResume(c)
    \/ \E f \in RequestFiles : NoTimerDue /\ onDocumentClose(f)
    \/ NoTimerDue /\ clearCache
    \/ \E d \in ExpTickSteps :
          NoTimerDue /\ nTicks < ExpMaxTicks /\ NotPastDue(now + d) /\ Tick(d)

SpecExpiry == Init /\ [][ExpiryNext]_vars

----------------------------------------------------------------------------
(* Claims *)

\* C1: after any sequence of document-change events the stored edit history
\* holds at most maxHistoryItems (20) entries, and they are exactly the most
\* recently recorded edits, in their original relative order.
C1_HistoryKeepsMostRecent ==
    LET k == Min(Len(recorded), maxHistoryItems)
    IN  /\ Len(editHistory) <= maxHistoryItems
        /\ Len(editHistory) = k
        /\ \A i \in 1..k : editHistory[i] = recorded[Len(recorded) - k + i]

\* C1 witness: 25 edits were recorded, the history holds 20 and none of the
\* oldest 5.
C1_Witness ==
    /\ Len(recorded) = 25
    /\ Len(editHistory) = 20
    /\ \A i \in 1..5 : \A j \in 1..Len(editHistory) : editHistory[j] # recorded[i]

\* C2: getFileContext never returns a cache entry that was computed before
\* the most recent recorded edit of its file: the content the returned entry
\* was computed from is the content of the document at the time of the call.
C2_NeverReturnsStaleEntry ==
    lastHit # NoHit => lastHit.fullContent = lastHit.document

\* C13: two getFileContext calls for the same file, with no edit of that file
\* and no expiry of an entry of it between the two calls, return contexts of
\* the same content.
C13_RepeatedCallReturnsSame ==
    (lastPair # NoPair /\ ~lastPair.between) => lastPair.first = lastPair.second

\* C14: after the cache entry of a file was invalidated by an edit or a close,
\* the next getFileContext call for the file returns a context computed from
\* the content the document has at that call.
C14_CallAfterInvalidationIsFresh ==
    lastFresh # NoFresh => lastFresh.content = lastFresh.document

\* C3: when expiry timers fire when due, getFileContext never returns a cache
\* entry whose time to live (cacheTimeout since it was stored) has elapsed.
C3_NeverReturnsExpiredEntry ==
    lastHit # NoHit => lastHit.age < cacheTimeout

\* C3 witness: getFileContext returned an entry some time after it was stored.
C3_Witness == lastHit # NoHit /\ lastHit.age > 0

\* the windows the provider queries the edit history with
EditWindows == {RapidWindowMs, EditWindowMs}

\* the positions in the stored history of the edits of file f newer than
\* windowMs
RecentPositions(f, windowMs) ==
    {i \in 1..Len(editHistory) :
        editHistory[i].fileName = f /\ editHistory[i].timestamp > now - windowMs}

\* C11: getEditHistoryForFile(file, w) returns exactly the stored edits of
\* the file with timestamp > now - w, in their stored order, and nothing else:
\* it has one entry per such position, the k-th being the edit at the k-th
\* such position.
C11_EditHistoryForFileIsExact ==
    \A f \in Files, w \in EditWindows :
        LET positions == RecentPositions(f, w)
            ordered == SelectSeq([i \in 1..Len(editHistory) |-> i],
                                 LAMBDA i : i \in positions)
        IN  getEditHistoryForFile(f, w)
              = [k \in 1..Cardinality(positions) |-> editHistory[ordered[k]]]

\* C11 witness: the history holds edits of both files, of a.ts some older and
\* some newer than the 5-minute window; the query returns the newer ones only.
C11_Witness ==
    /\ \E i \in 1..Len(editHistory) : editHistory[i].fileName = "b.py"
    /\ \E i \in 1..Len(editHistory) :
          /\ editHistory[i].fileName = "a.ts"
          /\ editHistory[i].timestamp = now - EditWindowMs
    /\ Len(getEditHistoryForFile("a.ts", EditWindowMs)) > 0

\* sequence a is a subsequence of sequence b
RECURSIVE IsSubsequence(_, _)
IsSubsequence(a, b) ==
    IF a = <<>> THEN TRUE
    ELSE IF b = <<>> THEN FALSE
    ELSE IF Head(a) = Head(b) THEN IsSubsequence(Tail(a), Tail(b))
    ELSE IsSubsequence(a, Tail(b))

\* the windows of the queries
QueryWindows == {RapidWindowMs, EditWindowMs, SnippetWindowMs}
Languages == {Language(f) : f \in Files}

\* C12: for the same store state and the same instant a larger window never
\* loses results: for w1 <= w2 the result of getEditHistoryForFile(file, w1)
\* is a subsequence of the result for w2, and the result of
\* getSnippetsForLanguage(language, w1) is a subsequence of the result for w2.
C12_LargerWindowLosesNothing ==
    \A w1 \in QueryWindows, w2 \in QueryWindows :
        w1 <= w2 =>
          /\ \A f \in Files :
                IsSubsequence(getEditHistoryForFile(f, w1), getEditHistoryForFile(f, w2))
          /\ \A language \in Languages :
                IsSubsequence(getSnippetsForLanguage(language, w1),
                              getSnippetsForLanguage(language, w2))

\* C12 witness: for a.ts and its language the rapid-typing window returns one
\* edit and one snippet, the 5-minute window two of each.
C12_Witness ==
    /\ Len(getEditHistoryForFile("a.ts", RapidWindowMs)) = 1
    /\ Len(getEditHistoryForFile("a.ts", EditWindowMs)) = 2
    /\ Len(getSnippetsForLanguage("typescript", RapidWindowMs)) = 1
    /\ Len(getSnippetsForLanguage("typescript", EditWindowMs)) = 2

\* C17: after any sequence of selection changes the snippet store holds at
\* most maxSnippetItems entries, which are the most recently recorded ones in
\* the order they were recorded in, and none of them comes from an empty
\* selection; this holds whatever the edit history holds.
C17_SnippetStoreKeepsMostRecent ==
    /\ Len(viewedSnippets) <= maxSnippetItems
    /\ viewedSnippets = SliceLast(recordedSnippets,
                                  Min(Len(recordedSnippets), maxSnippetItems))
    /\ \A i \in 1..Len(viewedSnippets) :
          viewedSnippets[i].range.start # viewedSnippets[i].range.end

\* C17 witness: eleven snippets were recorded, of both files, and an empty
\* selection was seen; the store holds ten, the oldest being the second
\* recorded, while the edit history holds its own twenty entries.
C17_Witness ==
    /\ Len(recordedSnippets) = 11
    /\ nSelections = 12
    /\ recordedSnippets[1] # recordedSnippets[2]
    /\ Len(viewedSnippets) = maxSnippetItems
    /\ viewedSnippets[1] = recordedSnippets[2]
    /\ Len(editHistory) = maxHistoryItems

C19_DeletionsLeaveNoEntry ==
    [][\A f \in Files :
          /\ removals'[f] # <<>> /\ removals'[f] # removals[f]
                => fileContextCache'[f] = NoEntry
          /\ (Len(removals[f]) = 1 /\ Len(removals'[f]) = 2)
                => fileContextCache' = fileContextCache]_vars

\* C20: while completionsEnabled is off, a call of provideInlineCompletionItems
\* by the host returns null and makes no backend call, also while manual
\* completions are in flight: no call made with the setting off (enabled is
\* the setting when the host made the call) is waiting for the backend, and a
\* call stopped by the setting returned null.
C20_DisabledAutomaticMakesNoBackendCall ==
    /\ \A r \in requests : (r.path = "auto" /\ r.pc = "net") => r.enabled
    /\ lastDone.gate = "disabled" => lastDone.result = "null" /\ ~lastDone.backendCalled

\* C18: two completion requests await the response of the backend at the same
\* time only if one was triggered through provideInlineCompletionItems and the
\* other through triggerManualCompletion.
C18_InFlightOnlyOnDifferentPaths ==
    \A r1 \in requests, r2 \in requests :
        (r1 # r2 /\ r1.pc = "net" /\ r2.pc = "net") => r1.path # r2.path

\* a text holds another as a run of consecutive atoms
Contains(text, part) ==
    \E i \in 0..(Len(text) - Len(part)) : SubSeq(text, i + 1, i + Len(part)) = part

\* C4: for every token budget, zero included, and every edit history,
\* snippets and file analysis, the rendered prompt contains the
\* area_around_code_to_edit section with the context's area, and the
\* code_to_edit section with prefix, cursor sentinel and suffix.
C4_PromptHoldsAreaAndCodeToEdit ==
    promptPc = "rendered"
      => /\ Contains(finalPrompt,
                     <<"<|area_around_code_to_edit|>", NL>>
                     \o promptContext[1].areaAroundCode
                     \o <<NL, "<|/area_around_code_to_edit|>">>)
         /\ Contains(finalPrompt,
                     <<"<|code_to_edit|>", NL>>
                     \o promptInput.document.prefixText \o <<"<|cursor|>">>
                     \o promptInput.document.suffixText
                     \o <<NL, "<|/code_to_edit|>">>)

\* C4 witness: a prompt was rendered with a budget of zero for a document
\* with blank lines around the cursor line, and holds the code_to_edit section.
C4_Witness ==
    /\ promptPc = "rendered"
    /\ promptInput.maxTokens = 0
    /\ promptInput.document.prefixText = <<"  ", "f(">>
    /\ Len(promptInput.edits) > 0
    /\ Contains(finalPrompt,
                <<"<|code_to_edit|>", NL, "  ", "f(", "<|cursor|>", ")", NL,
                  "<|/code_to_edit|>">>)

\* the text joined by the loop of renderPromptElements, before the newlines
\* are collapsed and the ends are trimmed
RawPrompt == RenderLoop(SortByPriority(promptElements), FALSE)

\* the text has three consecutive newlines
HasNewlineRun(text) ==
    \E i \in 1..(Len(text) - 2) : text[i] = NL /\ text[i + 1] = NL /\ text[i + 2] = NL

\* C15: for every list of prompt elements the text renderPromptElements
\* returns has no run of three or more newlines and has no white space at its
\* start or its end.
C15_RenderedPromptIsCollapsedAndTrimmed ==
    promptPc = "rendered"
      => /\ ~HasNewlineRun(finalPrompt)
         /\ finalPrompt # <<>>
              => ~IsBlank(finalPrompt[1]) /\ ~IsBlank(finalPrompt[Len(finalPrompt)])

\* C15 witness: a list was rendered whose joined text has a run of three
\* newlines inside and white space at both ends, into a text that is not empty.
C15_Witness ==
    /\ promptPc = "rendered"
    /\ Len(RawPrompt) >= 3
    /\ IsBlank(RawPrompt[1]) /\ IsBlank(RawPrompt[Len(RawPrompt)])
    /\ HasNewlineRun(Trim(RawPrompt))
    /\ finalPrompt # <<>>

\* C16: cleanCompletion of a reply that is an opening fence with a language
\* tag, one line of code after a "<number>| " prefix and a closing fence,
\* with an empty prefix text, is exactly the code of the line, for the code
\* foo() and for every other code without the cursor marker.
C16_FencedNumberedLineYieldsCode ==
    \A tag \in CleanTags \ {<<>>}, number \in CleanNumbers, code \in CleanCodes :
        (/\ cleanPc = "cleaned"
         /\ cleanInput = [completion |-> Fenced(tag, NumberedLine(number, code)),
                          prefixText |-> <<>>]
         /\ RemoveCursor(code) = code)
          => cleaned = code

\* C16, the case the specification gives: the js-fenced "12| foo()" yields
\* "foo()".
C16_Example ==
    (/\ cleanPc = "cleaned"
     /\ cleanInput = [completion |-> Fenced(<<"j", "s">>,
                                            NumberedLine(<<"1", "2">>,
                                                         <<"f", "o", "o", "(", ")">>)),
                      prefixText |-> <<>>])
      => cleaned = <<"f", "o", "o", "(", ")">>

\* C5: a request to provideInlineCompletionItems that arrives less than
\* debounceMs after the last request that passed the debounce gate returns
\* null, and no backend call is made for it.
C5_DebouncedRequestReturnsNull ==
    /\ (/\ lastDone.path = "auto"
        /\ lastDone.sincePassed >= 0
        /\ lastDone.sincePassed < debounceMs)
          => lastDone.result = "null" /\ ~lastDone.backendCalled
    /\ \A r \in requests :
          r.path = "auto" => ~(r.sincePassed >= 0 /\ r.sincePassed < debounceMs)

\* C5 witness: a request arrived half a debounce window after one that passed
\* the gate, and returned null at the debounce gate.
C5_Witness ==
    /\ lastDone.gate = "debounce"
    /\ lastDone.sincePassed = debounceMs \div 2
    /\ lastDone.result = "null"

\* C6: when more than 2 edits of the active file were recorded within the
\* last second, an automatically triggered request returns null and no
\* backend call is made for it.
C6_RapidTypingSuppressesAutomatic ==
    /\ (lastDone.kind = "Automatic" /\ lastDone.typing)
          => lastDone.result = "null" /\ ~lastDone.backendCalled
    /\ \A r \in requests : r.kind = "Automatic" => ~r.typing

\* C7: a manually triggered completion (trigger kind Invoke, or
\* triggerManualCompletion) never returns at the rapid-typing guard: a
\* triggerManualCompletion call always reaches the backend call, and an Invoke
\* request that passed the setting and debounce gates does so too, however many
\* edits of the file were recorded in the last second.
C7_ManualNotSuppressedByRapidGuard ==
    /\ lastDone.kind \in {"Invoke", "Manual"} => lastDone.gate # "rapid"
    /\ lastDone.path = "manual" => lastDone.backendCalled
    /\ (lastDone.kind = "Invoke" /\ lastDone.gate \notin {"disabled", "debounce"})
          => lastDone.backendCalled

\* C7 witness: an Invoke request that arrived after more than 2 edits of its
\* file within the last second reached the backend.
C7_Witness ==
    /\ lastDone.kind = "Invoke"
    /\ lastDone.typing
    /\ lastDone.backendCalled

\* C8: when the backend does not respond within the request timeout,
\* generateCompletion returns null, the request returns null, and no error
\* reaches the caller or the catch of provideInlineCompletionItems.
C8_TimeoutReturnsNull ==
    lastDone.outcome = "timeout"
      => /\ lastDone.genResult = "null"
         /\ lastDone.result = "null"
         /\ ~lastDone.logged

\* C8 witness: a triggerManualCompletion call ended by the request timeout.
C8_Witness == lastDone.outcome = "timeout" /\ lastDone.path = "manual"

\* C9 (as stated): on a backend failure other than a timeout the error is
\* surfaced to the caller of the request, on the automatic and the manual path.
C9_FailureSurfacedOnBothPaths ==
    lastDone.outcome \in {"refused", "non2xx", "malformed"}
      => lastDone.result = "error"

\* C9 (amended): on a refused connection, a non-2xx status, or a 2xx reply
\* without choices[0].message.content read with no cancellation requested,
\* generateCompletion rethrows the error; triggerManualCompletion passes it to
\* its caller, provideInlineCompletionItems logs it and returns null.
C9_FailureRethrownThenLoggedOrSurfaced ==
    (\/ lastDone.outcome \in {"refused", "non2xx"}
     \/ lastDone.outcome = "malformed" /\ ~lastDone.cancelled)
      => /\ lastDone.genResult = "error"
         /\ lastDone.path = "manual" => lastDone.result = "error"
         /\ lastDone.path = "auto" => lastDone.result = "null" /\ lastDone.logged

\* C9 witness: the backend refused the connection of an automatic request;
\* the error was logged and the request returned null.
C9_Witness ==
    /\ lastDone.path = "auto"
    /\ lastDone.outcome = "refused"
    /\ lastDone.logged
    /\ lastDone.result = "null"

\* C10: if cancellation was requested before the network call resolved, the
\* request returns null and a reply of the backend is discarded; the request
\* still ended with the outcome of the network call, which the cancellation
\* did not abort.
C10_CancelledRequestReturnsNull ==
    lastDone.cancelled
      => /\ lastDone.result = "null"
         /\ lastDone.backendCalled
         /\ lastDone.outcome # "none"
         /\ lastDone.outcome \in {"ok", "malformed"} => lastDone.genResult = "null"

\* C10 witness: the backend answered a request whose cancellation had been
\* requested; the reply was discarded.
C10_Witness ==
    /\ lastDone.cancelled
    /\ lastDone.outcome = "ok"
    /\ lastDone.result = "null"

----------------------------------------------------------------------------
\* the names of the headers of a request
HeaderNames(headers) == {h[1] : h \in headers}
\* a non-empty API key is configured
KeyConfigured(setting) == setting # <<>> /\ setting[1] # ""

\* C21: a completion request sent to the backend carries an Authorization
\* header exactly when a non-empty API key was configured when the request
\* read its configuration; with no key or an empty key its only header is
\* Content-Type
C21_AuthorizationIffKeyConfigured ==
    \A r \in requests :
        r.pc = "net" =>
            /\ "Content-Type" \in HeaderNames(r.headers)
            /\ "Authorization" \in HeaderNames(r.headers) <=> KeyConfigured(r.configured)
            /\ KeyConfigured(r.configured) =>
                   <<"Authorization", "Bearer " \o r.configured[1]>> \in r.headers
            /\ ~KeyConfigured(r.configured) => HeaderNames(r.headers) = {"Content-Type"}

\* requests are in flight for a key, for the empty key and for no key
C21_Witness ==
    /\ \E r \in requests : r.pc = "net" /\ r.configured = <<"sk-1">>
    /\ \E r \in requests : r.pc = "net" /\ r.configured \in {<<"">>, <<>>}
    /\ apiKey = <<"">>

\* C22: once clearChat has been handled the message list holds no message
\* sent before the clear and no reply to such a message, whenever that reply
\* arrives
C22_ClearedMessagesStayCleared ==
    \A i \in 1..Len(messages) : messages[i].send > clearedSends

\* the numbers of the attachments of a message and of the pending list
AttachmentIds(message) ==
    IF message.attachments = <<>> THEN {}
    ELSE {message.attachments[1][i].id : i \in 1..Len(message.attachments[1])}
PendingIds == {pendingAttachments[i].id : i \in 1..Len(pendingAttachments)}

----------------------------------------------------------------------------
C25_ReadsChangeNoStore ==
    [][ nReads' = nReads + 1 =>
            /\ lastRead'.op \in {"getRecentEditHistory", "getEditHistoryForFile",
                                 "getRecentViewedSnippets", "getSnippetsForLanguage",
                                 "getStats"}
            /\ UNCHANGED <<editHistory, viewedSnippets, fileContextCache>>
      ]_vars

\* getRecentEditHistory returned less than the history holds, with a snippet
\* stored and a file cached
C25_Witness ==
    /\ lastRead.op = "getRecentEditHistory"
    /\ Len(lastRead.result) < Len(editHistory)
    /\ viewedSnippets # <<>>
    /\ \E f \in Files : fileContextCache[f] # NoEntry

----------------------------------------------------------------------------
\* the atoms of a text that are not white space
Solid(text) == SelectSeq(text, LAMBDA atom : ~IsBlank(atom))

\* the positions of the elements that are not breaks
ContentPositions == {i \in 1..Len(promptElements) : ~promptElements[i].isBreak}

\* element j is to be emitted before element i: its priority is higher, or
\* equal and it was inserted earlier
EmittedBefore(j, i) ==
    \/ promptElements[j].priority > promptElements[i].priority
    \/ promptElements[j].priority = promptElements[i].priority /\ j < i

\* the position whose element is the k-th to be emitted
Emitted(k) ==
    CHOOSE i \in ContentPositions :
        Cardinality({j \in ContentPositions : EmittedBefore(j, i)}) = k - 1

\* the solid atoms of the contents, in the order of emission
RECURSIVE EmittedSolid(_)
EmittedSolid(k) ==
    IF k > Cardinality(ContentPositions) THEN <<>>
    ELSE Solid(promptElements[Emitted(k)].content) \o EmittedSolid(k + 1)

\* C26: renderPromptElements emits the contents of the elements that are not
\* breaks in the order of their priorities, highest first, and those of equal
\* priority in the order of their insertion
C26_ContentsInPriorityThenInsertionOrder ==
    promptPc = "rendered" => Solid(finalPrompt) = EmittedSolid(1)

\* a list was rendered in which an element follows one of lower priority and
\* two elements of one priority with different contents are separated by a break
C26_Witness ==
    /\ promptPc = "rendered"
    /\ Len(promptElements) = 3
    /\ promptElements[1] = PromptElement(3, <<"w">>)
    /\ promptElements[2] = singleBreak
    /\ promptElements[3] = PromptElement(3, <<NL, "x">>)
    /\ Solid(finalPrompt) = <<"w", "x">>

\* the text has a newline after an atom a and before a later atom b
NewlineBetween(text, a, b) ==
    \E p, q, r \in 1..Len(text) :
        p < q /\ q < r /\ text[p] = a /\ text[q] = NL /\ text[r] = b

\* C27: a break between two contents that are emitted in the order of their
\* insertion produces a line break between them in the rendered text
C27_BreakBetweenContentsBreaksTheLine ==
    promptPc = "rendered" =>
        \A i \in 2..(Len(promptElements) - 1) :
            LET before == promptElements[i - 1]
                after == promptElements[i + 1]
            IN  (/\ promptElements[i].isBreak
                 /\ ~before.isBreak /\ ~after.isBreak
                 /\ before.priority >= after.priority
                 /\ Solid(before.content) # <<>> /\ Solid(after.content) # <<>>)
                => NewlineBetween(finalPrompt,
                                  Solid(before.content)[Len(Solid(before.content))],
                                  Solid(after.content)[1])

----------------------------------------------------------------------------
\* C28: for every budget and context the rendered prompt starts with the
\* fixed scaffolding message and ends with the fixed closing instruction
C28_PromptStartsWithScaffoldingEndsWithInstruction ==
    promptPc = "rendered" =>
        /\ Len(finalPrompt) >= Len(systemMessage) + Len(finalInstruction)
        /\ SubSeq(finalPrompt, 1, Len(systemMessage)) = systemMessage
        /\ SubSeq(finalPrompt, Len(finalPrompt) - Len(finalInstruction) + 1,
                  Len(finalPrompt)) = finalInstruction

\* a prompt was rendered for the budget zero with edits and snippets; the
\* text joined by the loop ends with a newline
C28_Witness ==
    /\ promptPc = "rendered"
    /\ promptInput.maxTokens = 0
    /\ promptInput.edits # <<>> /\ promptInput.snippets # <<>>
    /\ RawPrompt[Len(RawPrompt)] = NL
    /\ finalPrompt[Len(finalPrompt)] = finalInstruction[1]

\* a text holds the atom opening, after it the run of atoms content and
\* after that the atom closing
Encloses(text, opening, content, closing) ==
    \E i, j, k \in 1..Len(text) :
        /\ text[i] = opening
        /\ i < j /\ j + Len(content) - 1 < k
        /\ SubSeq(text, j, j + Len(content) - 1) = content
        /\ text[k] = closing

\* a text holds an atom
HoldsAtom(text, atom) == \E i \in 1..Len(text) : text[i] = atom

\* C29: in the rendered prompt the content of the original_code section and
\* of the edits_to_original_code section, when the section is built, lies
\* after the opening tag of the section and before its closing tag
C29_SectionContentBetweenItsTags ==
    promptPc = "rendered" =>
        /\ HoldsAtom(finalPrompt, "<|original_code|>") =>
              Encloses(finalPrompt, "<|original_code|>",
                       renderOriginalDocument(promptContext[1]), "<|/original_code|>")
        /\ HoldsAtom(finalPrompt, "<|edits_to_original_code|>") =>
              Encloses(finalPrompt, "<|edits_to_original_code|>",
                       SubSeq(renderDocumentDiffs(promptContext[1]), 1, 4),
                       "<|/edits_to_original_code|>")

\* C30: the prompt rendered for a file without edits holds no edit-history
\* section, and the prompt rendered without viewed snippets holds no
\* viewed-snippets section, for every budget
C30_EmptySequencesHaveNoSection ==
    promptPc = "rendered" =>
        /\ promptInput.edits = <<>> =>
              /\ ~HoldsAtom(finalPrompt, "<|edits_to_original_code|>")
              /\ ~HoldsAtom(finalPrompt, "<|edit_diff_history|>")
        /\ promptInput.snippets = <<>> =>
              ~HoldsAtom(finalPrompt, "<|recently_viewed_code_snippets|>")

----------------------------------------------------------------------------
\* the number of occurrences of an atom in a text
CountAtom(text, atom) == Len(SelectSeq(text, LAMBDA a : a = atom))

\* C31: no rendered prompt holds more than 3 edit records, neither as hunks
\* of the diff nor as lines of the edit_diff_history section
C31_AtMostThreeEditsRendered ==
    promptPc = "rendered" =>
        /\ CountAtom(finalPrompt, "@@ -") <= 3
        /\ CountAtom(finalPrompt, "Change at line ") <= 3

\* the number of snippets in the rendered prompt
RenderedSnippets == CountAtom(finalPrompt, "<|recently_viewed_code_snippet|>")

\* the tokens of the viewed-snippets section with the first n snippets: 30
\* for the opening tag and the estimate of each snippet
RECURSIVE SnippetSectionTokens(_)
SnippetSectionTokens(n) ==
    IF n = 0 THEN 30
    ELSE SnippetSectionTokens(n - 1)
         + estimateTokens(SnippetContent(promptInput.snippets[n]))

\* the available tokens buildTokenAwareCopilotSections was called with
PromptAvailableTokens == copilotAvailableTokens(promptContext[1], promptInput.maxTokens)

\* C32: the viewed-snippets section of a rendered prompt holds at most 3
\* snippets; with each snippet it holds, the running token total of the
\* section is within 30% of the available tokens; the section is there only
\* when more than 500 tokens were available
C32_SnippetSectionWithinCapAndShare ==
    promptPc = "rendered" =>
        /\ RenderedSnippets <= 3
        /\ RenderedSnippets <= Len(promptInput.snippets)
        /\ RenderedSnippets > 0 =>
              10 * SnippetSectionTokens(RenderedSnippets) <= 3 * PromptAvailableTokens
        /\ HoldsAtom(finalPrompt, "<|recently_viewed_code_snippets|>") =>
              PromptAvailableTokens > 500

\* of 4 viewed snippets 2 were rendered: the third would have passed 30% of
\* the available tokens
C32_Witness ==
    /\ promptPc = "rendered"
    /\ Len(promptInput.snippets) = 4
    /\ RenderedSnippets = 2
    /\ 10 * SnippetSectionTokens(3) > 3 * PromptAvailableTokens

\* the snippet is in the rendered prompt (the file names of the snippets differ)
SnippetRendered(snippet) == HoldsAtom(finalPrompt, snippet.fileName)

\* C33: of the viewed snippets of the context, no omitted one is newer than
\* one rendered in the prompt
C33_RenderedSnippetsAreMostRecent ==
    promptPc = "rendered" =>
        \A i, j \in 1..Len(promptInput.snippets) :
            (/\ SnippetRendered(promptInput.snippets[i])
             /\ ~SnippetRendered(promptInput.snippets[j]))
            => promptInput.snippets[j].timestamp < promptInput.snippets[i].timestamp

\* the file snapshot of the rendered prompt: the text between the line of the
\* opening tag of current_file_content and the line of its closing tag
RenderedSnapshot ==
    LET opening == CHOOSE i \in 1..Len(finalPrompt) :
                       finalPrompt[i] = "<|current_file_content|>"
        closing == CHOOSE i \in 1..Len(finalPrompt) :
                       finalPrompt[i] = "<|/current_file_content|>"
    IN  SubSeq(finalPrompt, opening + 2, closing - 2)

\* the budget left for the snapshot: maxFileTokens
SnapshotBudget ==
    Min(PromptAvailableTokens
          - SnippetPart(promptContext[1], PromptAvailableTokens, 0).tokensUsed - 100,
        1000)

TruncationMarker == <<NL, "// ... [file content truncated] ...", NL>>

C35_NoPatternNoStructuralHints ==
    (promptPc = "rendered" /\ promptInput.document.languageId \notin PatternLanguages) =>
        /\ Len(promptContext[1].fileContext.imports) = 0
        /\ Len(promptContext[1].fileContext.functions) = 0
        /\ ~HoldsAtom(finalPrompt, "Imports: ")
        /\ ~HoldsAtom(finalPrompt, "Functions: ")

----------------------------------------------------------------------------
\* a text of characters holds the cursor sentinel
HoldsCursor(text) ==
    \E j \in 1..(Len(text) - Len(CursorChars) + 1) :
        SubSeq(text, j, j + Len(CursorChars) - 1) = CursorChars

\* C36: for every reply and prefix the text cleanCompletion returns holds no
\* cursor sentinel and no run of three or more newlines
C36_CleanedHasNoCursorNoNewlineRun ==
    cleanPc = "cleaned" => ~HoldsCursor(cleaned) /\ ~HasNewlineRun(cleaned)

----------------------------------------------------------------------------
\* the last request that returned ended in a timeout, a backend error or a
\* cancellation
EndedInFailure ==
    /\ lastDone.backendCalled
    /\ (lastDone.cancelled \/ lastDone.outcome \in Outcomes \ {"ok"})

----------------------------------------------------------------------------
\* a step in which a request arrives and is turned away at one of the gates
\* of provideInlineCompletionItems (no request is started for it)
SuppressedStep ==
    /\ nRequests' = nRequests + 1
    /\ requests' = requests
    /\ lastDone'.gate \in {"disabled", "debounce", "rapid"}

\* C38: a request turned away by the disabled flag, by the debounce check or
\* by the rapid-typing guard leaves lastRequestTime unchanged; lastRequestTime
\* changes only in a step that starts a request to the backend.
C38_SuppressedRequestKeepsLastRequestTime ==
    [][/\ SuppressedStep => lastRequestTime' = lastRequestTime
       /\ lastRequestTime' # lastRequestTime => requests' # requests]_vars

----------------------------------------------------------------------------
\* a triggerManualCompletion call is in flight
ManualInFlight == \E r \in requests : r.path = "manual"

\* C39: isManualTrigger is true only while a triggerManualCompletion call is
\* in flight; once every such call has returned or thrown it is false,
\* whatever automatic requests were made in between.
C39_ManualFlagOnlyWhileManualInFlight == isManualTrigger => ManualInFlight

\* C39 witness: a manual call has thrown while an automatic request made after
\* it is still in flight, no manual call is in flight and the flag is false.
C39_Witness ==
    /\ lastDone.path = "manual"
    /\ lastDone.result = "error"
    /\ ~ManualInFlight
    /\ \E r \in requests : r.path = "auto"
    /\ ~isManualTrigger

----------------------------------------------------------------------------
\* C40: an entry stored at time t is removed before t + cacheTimeout only by
\* an edit or a close of its file or by clearCache; in particular the expiry
\* timer of an earlier entry of the file does not remove it.
C40_EntryStaysUntilItsOwnExpiry ==
    [][\A f \in Files :
          (/\ fileContextCache[f] # NoEntry
           /\ fileContextCache'[f] = NoEntry
           /\ now < fileContextCache[f].storedAt + cacheTimeout)
             => removals'[f] \in {<<"edit">>, <<"close">>, <<"clear">>}]_vars

====
